---- MODULE Spec2Model ----
(***************************************************************************)
(* Retrieval subsystem of the course question-answering bot:               *)
(*   - TreeSearcher.search over the chunk index of a ContextTree           *)
(*     (src/src/tree_search.py),                                           *)
(*   - LLMClient.understand_query (src/src/llm.py),                        *)
(*   - the escalation logic of handle_message / button_callback            *)
(*     (src/src/handlers.py).                                              *)
(*                                                                         *)
(* Text is a sequence of characters.  The program works on Russian text;   *)
(* every Cyrillic letter is one character atom written in Latin            *)
(* transliteration ("zh", "ch", "ya", "soft", ...), an upper-case letter   *)
(* is the upper-case atom ("K", "T").  Scores are kept in half points      *)
(* (score2 = 2 * score) so that the weights 1.5 and 0.5 stay integers;     *)
(* all weights of the program are multiples of 0.5, so the floating-point  *)
(* sums are exact.                                                         *)
(***************************************************************************)
EXTENDS Integers, Sequences, FiniteSets, TLC

VARIABLES
  chunk_index,   \* ContextTree._chunk_index, in insertion order
  llm,           \* TreeSearcher.llm is configured
  llm_reply,     \* what LLMClient._call_llm hands back for this query
  query,         \* argument of TreeSearcher.search
  top_chunks,    \* argument of TreeSearcher.search
  uq,            \* outcome of the LLMClient.understand_query call
  s_pc,          \* "call" | "returned" | "raised"
  priority_keywords,  \* local priority_keywords of TreeSearcher.search
  other_keywords,     \* local other_keywords of TreeSearcher.search
  all_chunks,    \* local all_chunks of TreeSearcher.search, after the sort
  result,        \* list returned by TreeSearcher.search
  user_id,       \* update.effective_user.id of the message being handled
  message_text,  \* update.message.text
  store_ready,   \* vector_store is set and vector_store.get_count() > 0
  requests_today,    \* RateLimiter.requests_today
  warning_sent,      \* RateLimiter.warning_sent
  h_pc,          \* where handle_message stands
  question,      \* local question of handle_message
  relevant_chunks,   \* local relevant_chunks of handle_message
  is_expanded,   \* local is_expanded of handle_message
  direct_chunks, \* what the first vector_store.search call returned (None before)
  has_good_score,    \* local has_good_score of handle_message
  has_keyword_match, \* local has_keyword_match of handle_message
  expanded,      \* reply of llm_client.expand_query (None before the call)
  chapter_i,     \* position of the loop over target_chapters
  term_j,        \* position of the loop over search_terms
  chapter_chunks,    \* local chapter_chunks of handle_message, in insertion order
  found_chunks,  \* local all_chunks of handle_message, in insertion order
  calls,         \* the calls made so far to the vector store and the LLM client
  best_found,    \* per chunk id the highest score an expansion search returned (0: none)
  answer,        \* what llm_client.generate_answer returned (None before)
  sent_reply,    \* what was sent to the user (None if nothing)
  _search_context,   \* handlers._search_context: user id -> stored search context
  callback_data,     \* update.callback_query.data of the button being handled
  new_chunks,        \* local new_chunks of button_callback
  self_tree,     \* ContextTree.tree: <<>> is None, <<t>> the loaded snapshot t
  _chapter_index,    \* ContextTree._chapter_index, in insertion order
  _section_index,    \* ContextTree._section_index, in insertion order
  load_returned, \* what the last ContextTree.load() returned (None before)
  loads,         \* ContextTree.load() calls made so far
  embeddings,    \* SemanticChapterSearcher.embeddings['chapters']
  embed_result,  \* what voyage_client.embed does for this query
  top_chapters,  \* argument of SemanticChapterSearcher.search
  collection,    \* the documents of VectorStore.collection, in insertion order
  store_query,   \* argument query of VectorStore.search
  n_results,     \* argument n_results of VectorStore.search
  ENABLE_HYBRID_SEARCH,  \* config.ENABLE_HYBRID_SEARCH (read from the environment)
  semantic_results,  \* what collection.query does for this query
  combined,      \* list returned by VectorStore.search
  v_pc,          \* "call" | "returned" of VectorStore.search
  attempt,       \* loop variable attempt of LLMClient._call_llm
  responses,     \* what requests.post did in the attempts made so far
  sleeps,        \* the time.sleep calls made so far: after which attempt, how long
  call_returned, \* what _call_llm returned (None while it runs or when it returns None)
  l_pc,          \* "request" | "sleeping" | "returned" | "raised" of _call_llm
  total_tokens,  \* VoyageLimiter.total_tokens
  voyage_warning_sent,   \* VoyageLimiter.warning_sent
  limit_reached, \* VoyageLimiter.limit_reached
  voyage_log,    \* the VoyageLimiter methods called so far and what they returned
  notified,      \* the _notify calls since the last confirmed reset
  tasks,         \* the updates in flight: handler coroutine, its locals and position
  heap,          \* the context dicts created so far; _search_context holds their addresses
  rounds_done,   \* per context dict: successful search_other rounds made for its question
  today,         \* RateLimiter.today, as a day number
  date_today     \* date.today(), as a day number

search_vars == <<chunk_index, llm, llm_reply, query, top_chunks, uq, s_pc,
                 priority_keywords, other_keywords, all_chunks, result>>

handler_vars == <<user_id, message_text, store_ready, requests_today,
                  warning_sent, h_pc, question, relevant_chunks, is_expanded,
                  direct_chunks, has_good_score, has_keyword_match, expanded,
                  chapter_i, term_j, chapter_chunks, found_chunks, calls,
                  best_found, answer, sent_reply, _search_context>>

button_vars == <<callback_data, new_chunks>>

tree_vars == <<self_tree, _chapter_index, _section_index, load_returned, loads>>

chapter_vars == <<embeddings, embed_result, top_chapters>>

store_vars == <<collection, store_query, n_results, ENABLE_HYBRID_SEARCH,
                semantic_results, combined, v_pc>>

llmcall_vars == <<attempt, responses, sleeps, call_returned, l_pc>>

voyage_vars == <<total_tokens, voyage_warning_sent, limit_reached, voyage_log,
                 notified>>

task_vars == <<tasks, heap, rounds_done, today, date_today>>

\* the variables of _call_llm, of the VoyageLimiter and of the updates in flight
rest_vars == <<llmcall_vars, voyage_vars, task_vars>>

\* what TreeSearcher.search leaves alone
beside_search_vars == <<handler_vars, button_vars, tree_vars, chapter_vars, store_vars,
                        rest_vars>>

\* what handle_message leaves alone
beside_handler_vars == <<search_vars, button_vars, tree_vars, chapter_vars, store_vars,
                         rest_vars>>

\* what button_callback leaves alone besides the handler's locals
beside_button_vars == <<search_vars, tree_vars, chapter_vars, store_vars, rest_vars>>

vars == <<search_vars, handler_vars, button_vars, tree_vars, chapter_vars, store_vars,
          rest_vars>>

---------------------------------------------------------------------------
(* Bounds *)

MaxSections == 3     \* sections per chapter in the corpora explored
MaxTop == 4          \* largest top_chunks explored
MaxHits == 2          \* hits one vector_store.search call returns at most in the runs explored
MaxRequests == 3      \* requests counted before no further button is pressed in the runs explored
MaxSearches == 2      \* searches one expansion round makes at most in the runs explored

---------------------------------------------------------------------------
(* Characters and strings *)

AllLetters ==
  {"a", "b", "v", "g", "d", "e", "yo", "zh", "z", "i", "j", "k", "l", "m",
   "n", "o", "p", "r", "s", "t", "u", "f", "h", "c", "ch", "sh", "sch",
   "hard", "y", "soft", "eh", "yu", "ya"}

Range(s) == {s[i] : i \in 1..Len(s)}

\* str.lower() on one character
lower_char(c) ==
  CASE c = "K" -> "k"
    [] c = "T" -> "t"
    [] c = "P" -> "p"
    [] OTHER -> c

\* str.lower()
lower(s) == [i \in 1..Len(s) |-> lower_char(s[i])]

\* re.findall(r'[letters]+', s): the maximal runs of letters, left to right
RECURSIVE findall_from(_, _, _)
findall_from(s, i, cur) ==
  IF i > Len(s)
  THEN (IF cur = <<>> THEN <<>> ELSE <<cur>>)
  ELSE IF s[i] \in AllLetters
       THEN findall_from(s, i + 1, Append(cur, s[i]))
       ELSE (IF cur = <<>> THEN <<>> ELSE <<cur>>) \o findall_from(s, i + 1, <<>>)

findall_letters(s) == findall_from(s, 1, <<>>)

\* str.split(): the maximal runs of non-whitespace characters
RECURSIVE split_from(_, _, _)
split_from(s, i, cur) ==
  IF i > Len(s)
  THEN (IF cur = <<>> THEN <<>> ELSE <<cur>>)
  ELSE IF s[i] # " "
       THEN split_from(s, i + 1, Append(cur, s[i]))
       ELSE (IF cur = <<>> THEN <<>> ELSE <<cur>>) \o split_from(s, i + 1, <<>>)

split(s) == split_from(s, 1, <<>>)

\* kw in s  (substring test)
Contains(kw, s) ==
  \E i \in 1..(Len(s) - Len(kw) + 1) : SubSeq(s, i, i + Len(kw) - 1) = kw

\* s.count(kw): non-overlapping occurrences, scanning left to right
RECURSIVE count_from(_, _, _)
count_from(s, kw, i) ==
  IF i + Len(kw) - 1 > Len(s)
  THEN 0
  ELSE IF SubSeq(s, i, i + Len(kw) - 1) = kw
       THEN 1 + count_from(s, kw, i + Len(kw))
       ELSE count_from(s, kw, i + 1)

count(s, kw) == count_from(s, kw, 1)

\* s.endswith(e)
endswith(s, e) ==
  Len(s) >= Len(e) /\ SubSeq(s, Len(s) - Len(e) + 1, Len(s)) = e

\* sum of f[x] over the finite set S
RECURSIVE SetSum(_, _)
SetSum(S, f) ==
  IF S = {} THEN 0
  ELSE LET x == CHOOSE y \in S : TRUE IN f[x] + SetSum(S \ {x}, f)

---------------------------------------------------------------------------
(* TreeSearcher.search: keywords *)

\* stop_words of TreeSearcher.search
stop_words ==
  {
    <<"ch","t","o">>, <<"k","a","k">>, <<"g","d","e">>,
    <<"k","o","g","d","a">>, <<"p","o","ch","e","m","u">>, <<"k","a","k","o","j">>,
    <<"k","a","k","a","ya">>, <<"k","a","k","i","e">>, <<"eh","t","o">>,
    <<"t","a","k","o","e">>, <<"d","l","ya">>, <<"p","r","i">>,
    <<"i","l","i">>, <<"e","s","l","i">>, <<"ch","e","m">>,
    <<"m","e","zh","d","u">>, <<"p","o","m","n","yu">>, <<"b","y","l","a">>,
    <<"s","k","a","zh","i">>, <<"i","s","k","a","t","soft">>, <<"n","a","j","t","i">>,
    <<"p","o","k","a","zh","i">>, <<"r","a","s","s","k","a","zh","i">>, <<"m","o","zh","n","o">>,
    <<"p","o","d","r","o","b","n","e","e">>,
    <<"r","a","s","sh","i","f","r","o","v","a","t","soft">>, <<"m","o","d","e","l","soft">>,
    <<"p","r","o">>, <<"o","t","l","i","ch","a","e","t","s","ya">>, <<"o","t","l","i","ch","i","ya">>,
    <<"o","t","l","i","ch","i","e">>, <<"r","a","z","n","i","c","a">>, <<"r","a","z","l","i","ch","i","e">>,
    <<"r","a","z","l","i","ch","i","ya">>, <<"s","r","a","v","n","i">>, <<"s","r","a","v","n","i","t","soft">>,
    <<"s","r","a","v","n","e","n","i","e">>, <<"p","o","h","o","zh","e">>, <<"p","o","h","o","zh","i">>,
    <<"o","b","sch","e","g","o">>
  }

\* stop_words of TreeSearcher._understand_query (local tokenizer fallback)
stop_words_fallback ==
  {
    <<"ch","t","o">>, <<"k","a","k">>, <<"g","d","e">>,
    <<"k","o","g","d","a">>, <<"p","o","ch","e","m","u">>, <<"k","a","k","o","j">>,
    <<"k","a","k","a","ya">>, <<"k","a","k","i","e">>, <<"eh","t","o">>,
    <<"t","a","k","o","e">>, <<"d","l","ya">>, <<"p","r","i">>,
    <<"i","l","i">>, <<"e","s","l","i">>, <<"ch","e","m">>,
    <<"m","e","zh","d","u">>
  }

\* the suffix list of TreeSearcher.search, in the order the code tries it
endings ==
  <<
    <<"a">>, <<"ya">>, <<"y">>, <<"i">>, <<"u">>, <<"yu">>,
    <<"o","j">>, <<"e","j">>, <<"o","m">>, <<"e","m">>, <<"o","v">>, <<"e","v">>,
    <<"a","m","i">>, <<"ya","m","i">>, <<"o","s","t","soft">>,
    <<"yo","n","n","o","s","t","soft">>
  >>

\* src.chapters.correct_typo: a static table of known misspellings; a word
\* that is not in the table is handed back unchanged
correct_typo(word) ==
  IF word = <<"p","l","o","n">> THEN <<"p","l","a","n">> ELSE word

\* the loop that fills priority_words from query_words
RECURSIVE priority_words_of(_)
priority_words_of(query_words) ==
  IF query_words = <<>> THEN <<>>
  ELSE LET word == Head(query_words)
           corrected == correct_typo(word)
       IN (IF word \notin stop_words /\ Len(word) > 2
           THEN (IF corrected # word THEN <<corrected, word>> ELSE <<corrected>>)
           ELSE <<>>)
          \o priority_words_of(Tail(query_words))

\* priority_words of TreeSearcher.search for question q
priority_words_for(q) == priority_words_of(findall_letters(lower(q)))

\* keywords = priority_words + [k for k in keywords if k.lower() not in priority_words]
merged_keywords(pw, kws) ==
  LET in_pw == Range(pw)
  IN pw \o SelectSeq(kws, LAMBDA k : lower(k) \notin in_pw)

\* mutant of stripped_forms: an ending is stripped when 2 characters remain
stripped_forms_short(kw_lower) ==
  {kw_lower} \cup
  {SubSeq(kw_lower, 1, Len(kw_lower) - Len(endings[e])) :
     e \in {i \in 1..Len(endings) :
              /\ endswith(kw_lower, endings[i])
              /\ Len(kw_lower) > Len(endings[i]) + 1}}

\* the forms of one priority word: itself and every form stripped of one ending
stripped_forms(kw_lower) ==
  {kw_lower} \cup
  {SubSeq(kw_lower, 1, Len(kw_lower) - Len(endings[e])) :
     e \in {i \in 1..Len(endings) :
              /\ endswith(kw_lower, endings[i])
              /\ Len(kw_lower) > Len(endings[i]) + 2}}

\* the set priority_keywords built from priority_words
priority_keywords_of(pw) ==
  UNION {stripped_forms(lower(kw)) : kw \in Range(pw)}

\* the set other_keywords built from the merged keyword list
other_keywords_of(keywords, pk) ==
  {word \in UNION {Range(split(lower(kw))) :
                     kw \in {k \in Range(keywords) : lower(k) \notin pk}} :
     Len(word) > 2}

---------------------------------------------------------------------------
(* LLMClient.understand_query and TreeSearcher._understand_query *)

\* The reply of LLMClient._call_llm as understand_query sees it:
\*   kind "none"      - None or an empty string (the call failed)
\*   kind "notjson"   - text on which json.loads raises JSONDecodeError
\*   kind "nonobject" - valid JSON that is not an object (a list, a number)
\*   kind "object"    - a JSON object; has_terms / has_chapters tell whether
\*                      the keys 'search_terms' / 'chapters' are present
Reply(kind, has_terms, terms, has_chapters, chapters) ==
  [kind |-> kind, has_terms |-> has_terms, terms |-> terms,
   has_chapters |-> has_chapters, chapters |-> chapters]

\* mutant of understand_query: a failed oracle call is raised to the caller
understand_query_reraise(q, reply) ==
  IF reply.kind = "none"
  THEN [status |-> "raised", chapters |-> <<>>, search_terms |-> <<>>]
  ELSE IF reply.kind \in {"notjson", "nonobject"}
  THEN [status |-> "returned", chapters |-> <<>>, search_terms |-> <<q>>]
  ELSE [status |-> "returned", chapters |-> reply.chapters,
        search_terms |-> IF reply.has_terms /\ reply.terms # <<>> THEN reply.terms ELSE <<q>>]

\* LLMClient.understand_query(query): status "raised" is an exception that
\* leaves the method
understand_query(q, reply) ==
  IF reply.kind = "none"
  THEN [status |-> "returned", chapters |-> <<>>, search_terms |-> <<q>>]
  ELSE IF reply.kind = "notjson"
  THEN [status |-> "returned", chapters |-> <<>>, search_terms |-> <<q>>]
  ELSE IF reply.kind = "nonobject"
  THEN [status |-> "raised", chapters |-> <<>>, search_terms |-> <<>>]
  ELSE LET chapters == IF reply.has_chapters THEN reply.chapters ELSE <<>>
           terms == IF reply.has_terms THEN reply.terms ELSE <<q>>
       IN [status |-> "returned", chapters |-> chapters,
           search_terms |-> IF terms # <<>> THEN terms ELSE <<q>>]

\* the local tokenizer at the end of TreeSearcher._understand_query
fallback_keywords(q) ==
  LET words == findall_letters(lower(q))
      keywords == SelectSeq(words, LAMBDA w : w \notin stop_words_fallback /\ Len(w) > 2)
  IN SubSeq(keywords, 1, IF Len(keywords) < 5 THEN Len(keywords) ELSE 5)

\* TreeSearcher._understand_query(query) -> (keywords, recommended_chapters)
_understand_query(q, has_llm, reply) ==
  LET analysis == understand_query(q, reply)
  IN IF has_llm /\ analysis.status = "raised"
     THEN [status |-> "raised", keywords |-> <<>>, chapters |-> <<>>]
     ELSE IF has_llm /\ analysis.search_terms # <<>>
     THEN [status |-> "returned", keywords |-> analysis.search_terms,
           chapters |-> analysis.chapters]
     ELSE [status |-> "returned", keywords |-> fallback_keywords(q), chapters |-> <<>>]

---------------------------------------------------------------------------
(* TreeSearcher.search: scoring, ranking, selection *)

\* mutant of priority_score2: the x3 weight of question words is missing
priority_score2_unweighted(kw, chunk) ==
  LET text_lower == lower(chunk.text)
      section_lower == lower(chunk.section_title)
      chapter_lower == lower(chunk.chapter_title)
      chunk_keywords == {lower(k) : k \in Range(chunk.keywords)}
  IN (IF Contains(kw, section_lower) THEN 10 ELSE 0)
     + (IF Contains(kw, chapter_lower) THEN 6 ELSE 0)
     + (IF Contains(kw, text_lower) THEN count(text_lower, kw) * 2 ELSE 0)
     + (IF kw \in chunk_keywords THEN 1 ELSE 0)

\* contribution of one priority keyword to a chunk's score, in half points
priority_score2(kw, chunk) ==
  LET text_lower == lower(chunk.text)
      section_lower == lower(chunk.section_title)
      chapter_lower == lower(chunk.chapter_title)
      chunk_keywords == {lower(k) : k \in Range(chunk.keywords)}
  IN (IF Contains(kw, section_lower) THEN 30 ELSE 0)
     + (IF Contains(kw, chapter_lower) THEN 18 ELSE 0)
     + (IF Contains(kw, text_lower) THEN count(text_lower, kw) * 6 ELSE 0)
     + (IF kw \in chunk_keywords THEN 3 ELSE 0)

\* mutant of other_score2: the keyword-tag term is missing
other_score2_no_tag(kw, chunk) ==
  LET text_lower == lower(chunk.text)
      section_lower == lower(chunk.section_title)
      chapter_lower == lower(chunk.chapter_title)
  IN (IF Contains(kw, section_lower) THEN 10 ELSE 0)
     + (IF Contains(kw, chapter_lower) THEN 6 ELSE 0)
     + (IF Contains(kw, text_lower) THEN count(text_lower, kw) * 2 ELSE 0)

\* contribution of one other (adapter) keyword to a chunk's score, in half points
other_score2(kw, chunk) ==
  LET text_lower == lower(chunk.text)
      section_lower == lower(chunk.section_title)
      chapter_lower == lower(chunk.chapter_title)
      chunk_keywords == {lower(k) : k \in Range(chunk.keywords)}
  IN (IF Contains(kw, section_lower) THEN 10 ELSE 0)
     + (IF Contains(kw, chapter_lower) THEN 6 ELSE 0)
     + (IF Contains(kw, text_lower) THEN count(text_lower, kw) * 2 ELSE 0)
     + (IF kw \in chunk_keywords THEN 1 ELSE 0)

\* score of one chunk (half points) for the two keyword sets
chunk_score2(chunk, pk, ok) ==
  SetSum(pk, [kw \in pk |-> priority_score2(kw, chunk)])
  + SetSum(ok, [kw \in ok |-> other_score2(kw, chunk)])

SearchResult(chunk, score2) ==
  [chunk_id |-> chunk.id, text |-> chunk.text, score2 |-> score2,
   chapter_title |-> chunk.chapter_title,
   section_title |-> chunk.section_title, keywords |-> chunk.keywords]

\* the loop over _chunk_index that fills all_chunks
RECURSIVE scored_chunks(_, _, _)
scored_chunks(index, pk, ok) ==
  IF index = <<>> THEN <<>>
  ELSE LET chunk == Head(index)
           score2 == chunk_score2(chunk, pk, ok)
       IN (IF score2 > 0 THEN <<SearchResult(chunk, score2)>> ELSE <<>>)
          \o scored_chunks(Tail(index), pk, ok)

\* mutant of sort_by_score: reverse=True is missing, the order is ascending
RECURSIVE sort_by_score_asc(_)
sort_by_score_asc(s) ==
  IF s = <<>> THEN <<>>
  ELSE LET front == sort_by_score_asc(SubSeq(s, 1, Len(s) - 1))
           x == s[Len(s)]
           k == Cardinality({i \in 1..Len(front) : front[i].score2 <= x.score2})
       IN SubSeq(front, 1, k) \o <<x>> \o SubSeq(front, k + 1, Len(front))

\* list.sort(key=score, reverse=True): stable, equal scores keep their order
RECURSIVE sort_by_score(_)
sort_by_score(s) ==
  IF s = <<>> THEN <<>>
  ELSE LET front == sort_by_score(SubSeq(s, 1, Len(s) - 1))
           x == s[Len(s)]
           k == Cardinality({i \in 1..Len(front) : front[i].score2 >= x.score2})
       IN SubSeq(front, 1, k) \o <<x>> \o SubSeq(front, k + 1, Len(front))

\* chapters_count.get(ch, 0) for the chunks taken so far
chapters_count(taken, ch) ==
  Cardinality({i \in 1..Len(taken) : taken[i].chapter_title = ch})

\* mutant of under_cap: the cap is 3 chunks per chapter
under_cap_three(taken, ch) == chapters_count(taken, ch) < 3

\* the test of the selection loop: chapters_count.get(ch, 0) < 2
under_cap(taken, ch) == chapters_count(taken, ch) < 2

\* the selection loop: at most 2 chunks per chapter title, top_chunks in all
RECURSIVE select_top(_, _, _)
select_top(ranked, top, taken) ==
  IF ranked = <<>> \/ Len(taken) >= top THEN taken
  ELSE LET chunk == Head(ranked)
           ch == chunk.chapter_title
       IN IF under_cap(taken, ch)
          THEN select_top(Tail(ranked), top, Append(taken, chunk))
          ELSE select_top(Tail(ranked), top, taken)

\* all_chunks after the sort: the positively scored chunks, ranked
ranked_chunks(index, pk, ok) == sort_by_score(scored_chunks(index, pk, ok))

---------------------------------------------------------------------------
(* ContextTree._build_indexes: the chunk index of a nested corpus tree *)

RECURSIVE Flatten(_)
Flatten(ss) == IF ss = <<>> THEN <<>> ELSE Head(ss) \o Flatten(Tail(ss))

\* the record stored in _chunk_index for one chunk of the walk
chunk_entry(book, chapter, section, chunk) ==
  [id |-> chunk.id, text |-> chunk.text, keywords |-> chunk.keywords,
   book_title |-> book.title,
   chapter_id |-> chapter.id, chapter_title |-> chapter.title,
   section_id |-> section.id, section_title |-> section.title]

\* the chunk records in the order the nested loops visit them
walk_chunks(tree) ==
  Flatten([b \in 1..Len(tree.books) |->
    Flatten([c \in 1..Len(tree.books[b].chapters) |->
      Flatten([s \in 1..Len(tree.books[b].chapters[c].sections) |->
        [k \in 1..Len(tree.books[b].chapters[c].sections[s].chunks) |->
           chunk_entry(tree.books[b], tree.books[b].chapters[c],
                       tree.books[b].chapters[c].sections[s],
                       tree.books[b].chapters[c].sections[s].chunks[k])]])])])

\* d[key] = entry on an insertion-ordered dict: a known key keeps its place
dict_put(d, entry) ==
  IF \E i \in 1..Len(d) : d[i].id = entry.id
  THEN [i \in 1..Len(d) |-> IF d[i].id = entry.id THEN entry ELSE d[i]]
  ELSE Append(d, entry)

RECURSIVE dict_put_all(_, _)
dict_put_all(d, entries) ==
  IF entries = <<>> THEN d
  ELSE dict_put_all(dict_put(d, Head(entries)), Tail(entries))

\* _chunk_index after _build_indexes on an index that held `old`
build_chunk_index(old, tree) == dict_put_all(old, walk_chunks(tree))

---------------------------------------------------------------------------
(* The corpora, questions and adapter replies explored *)

W_tema == <<"t","e","m","a">>
W_plan == <<"p","l","a","n">>
W_rol == <<"r","o","l","soft">>
W_obzor == <<"o","b","z","o","r">>
W_temy == <<"t","e","m","y">>
T_tema2 == <<"t","e","m","a"," ","t","e","m","a">>
T_obzor_kak == <<"o","b","z","o","r"," ","k","a","k">>

\* a section before its ids are assigned
S_one == [title |-> W_obzor, chunks |-> <<[text |-> T_tema2, keywords |-> <<>>]>>]
S_plan == [title |-> W_plan,
           chunks |-> <<[text |-> T_obzor_kak, keywords |-> <<<<"T","e","m","a">>>>],
                        [text |-> W_tema, keywords |-> <<>>]>>]
S_rol == [title |-> W_rol, chunks |-> <<[text |-> W_obzor, keywords |-> <<>>]>>]

SectionPool(c) == IF c = 1 THEN {S_one, S_plan} ELSE {S_one, S_rol}

ChapterTitles(c) == IF c = 1 THEN {W_obzor} ELSE {W_obzor, W_temy}

\* chapter c with the given title and section kinds; ids are unique.  The
\* chapters explored repeat one kind of section up to MaxSections times
MkChapter(c, title, kinds) ==
  [id |-> c, title |-> title,
   sections |-> [s \in 1..Len(kinds) |->
      [id |-> <<c, s>>, title |-> kinds[s].title,
       chunks |-> [k \in 1..Len(kinds[s].chunks) |->
          [id |-> <<c, s, k>>, text |-> kinds[s].chunks[k].text,
           keywords |-> kinds[s].chunks[k].keywords]]]]]

Chapters(c) ==
  {MkChapter(c, t, kinds) :
     t \in ChapterTitles(c),
     kinds \in {[i \in 1..n |-> k] : n \in 0..MaxSections, k \in SectionPool(c)}}

Trees ==
  {[books |-> <<[title |-> <<"b">>, chapters |-> <<c1, c2>>]>>] :
     c1 \in Chapters(1), c2 \in Chapters(2)}

Q_tema == <<"K","a","k"," ","t","e","m","a","?">>
Q_plon == <<"p","l","o","n">>
Q_kak == <<"k","a","k">>
Q_era == <<"eh","r","a">>

Queries == {Q_tema, Q_plon, Q_kak, Q_era}

NoReply == Reply("none", FALSE, <<>>, FALSE, <<>>)

LLMReplies ==
  { NoReply,
    Reply("notjson", FALSE, <<>>, FALSE, <<>>),
    Reply("nonobject", FALSE, <<>>, FALSE, <<>>),
    Reply("object", FALSE, <<>>, FALSE, <<>>),
    Reply("object", TRUE, <<>>, TRUE, <<<<"1">>>>),
    Reply("object", TRUE, <<W_rol>>, TRUE, <<>>),
    Reply("object", TRUE, <<<<"T","e","m","a">>>>, FALSE, <<>>),
    Reply("object", TRUE, <<<<"p","l","a","n"," ","r","o","l","soft">>>>, TRUE, <<<<"1">>>>),
    Reply("object", TRUE, <<W_rol>>, TRUE, <<W_temy>>) }

NotCalled == [status |-> "notcalled", chapters |-> <<>>, search_terms |-> <<>>]

---------------------------------------------------------------------------
(* One call of TreeSearcher.search *)

\* no message is being handled while TreeSearcher.search is explored
HandlerIdle ==
  /\ user_id = "u1"
  /\ message_text = <<>>
  /\ store_ready = FALSE
  /\ requests_today = 0
  /\ warning_sent = FALSE
  /\ h_pc = "idle"
  /\ question = <<>>
  /\ relevant_chunks = <<>>
  /\ is_expanded = FALSE
  /\ direct_chunks = "None"
  /\ has_good_score = FALSE
  /\ has_keyword_match = FALSE
  /\ expanded = "None"
  /\ chapter_i = 1
  /\ term_j = 1
  /\ chapter_chunks = <<>>
  /\ found_chunks = <<>>
  /\ calls = <<>>
  /\ best_found = <<>>
  /\ answer = "None"
  /\ sent_reply = "None"
  /\ _search_context = <<>>

\* no button is being handled
ButtonIdle ==
  /\ callback_data = "None"
  /\ new_chunks = <<>>

\* ContextTree.load is not explored: the fields as __init__ leaves them
TreeIdle ==
  /\ self_tree = <<>>
  /\ _chapter_index = <<>>
  /\ _section_index = <<>>
  /\ load_returned = "None"
  /\ loads = 0

\* no SemanticChapterSearcher is in use
ChaptersIdle ==
  /\ embeddings = <<>>
  /\ embed_result = "None"
  /\ top_chapters = 0

\* no VectorStore.search call is explored
StoreIdle ==
  /\ collection = <<>>
  /\ store_query = <<>>
  /\ n_results = 0
  /\ ENABLE_HYBRID_SEARCH = TRUE
  /\ semantic_results = "None"
  /\ combined = <<>>
  /\ v_pc = "idle"

\* no LLMClient._call_llm call is explored
LLMCallIdle ==
  /\ attempt = 0
  /\ responses = <<>>
  /\ sleeps = <<>>
  /\ call_returned = "None"
  /\ l_pc = "idle"

\* no VoyageLimiter is in use
VoyageIdle ==
  /\ total_tokens = 0
  /\ voyage_warning_sent = FALSE
  /\ limit_reached = FALSE
  /\ voyage_log = <<>>
  /\ notified = <<>>

\* no update is in flight beside the one explored
TasksIdle ==
  /\ tasks = <<>>
  /\ heap = <<>>
  /\ rounds_done = <<>>
  /\ today = 1
  /\ date_today = 1

RestIdle == LLMCallIdle /\ VoyageIdle /\ TasksIdle

InitSearch ==
  /\ chunk_index \in {build_chunk_index(<<>>, t) : t \in Trees}
  /\ llm \in BOOLEAN
  /\ llm_reply \in (IF llm THEN LLMReplies ELSE {NoReply})
  /\ query \in Queries
  /\ top_chunks \in 0..MaxTop
  /\ uq = NotCalled
  /\ s_pc = "call"
  /\ priority_keywords = {}
  /\ other_keywords = {}
  /\ all_chunks = <<>>
  /\ result = <<>>
  /\ HandlerIdle
  /\ ButtonIdle
  /\ TreeIdle
  /\ ChaptersIdle
  /\ StoreIdle
  /\ RestIdle

\* TreeSearcher.search(query, top_chunks=top_chunks)
Search ==
  /\ s_pc = "call"
  /\ LET u == _understand_query(query, llm, llm_reply)
         pw == priority_words_for(query)
         keywords == merged_keywords(pw, u.keywords)
         pk == priority_keywords_of(pw)
         ok == other_keywords_of(keywords, pk)
         ranked == ranked_chunks(chunk_index, pk, ok)
     IN /\ uq' = (IF llm THEN understand_query(query, llm_reply) ELSE NotCalled)
        /\ IF u.status = "raised"
           THEN /\ s_pc' = "raised"
                /\ UNCHANGED <<priority_keywords, other_keywords, all_chunks, result>>
           ELSE /\ s_pc' = "returned"
                /\ priority_keywords' = pk
                /\ other_keywords' = ok
                /\ all_chunks' = ranked
                /\ result' = select_top(ranked, top_chunks, <<>>)
  /\ UNCHANGED <<chunk_index, llm, llm_reply, query, top_chunks>>
  /\ UNCHANGED beside_search_vars

NextSearch == Search

SpecSearch == InitSearch /\ [][NextSearch]_vars

---------------------------------------------------------------------------
(* Properties of TreeSearcher.search *)

\* the chunk of the index a result was made from
IndexChunk(chunk_id) == CHOOSE c \in Range(chunk_index) : c.id = chunk_id

ChapterIds == {c.chapter_id : c \in Range(chunk_index)}

\* number of results that belong to chapter ch_id
ResultsOfChapter(ch_id) ==
  Cardinality({i \in 1..Len(result) : IndexChunk(result[i].chunk_id).chapter_id = ch_id})

\* the score (half points) of a chunk for the keyword sets of the search
CurrentScore2(chunk) == chunk_score2(chunk, priority_keywords, other_keywords)

\* the positively scored chunks of chapter ch_id
PositiveOfChapter(ch_id) ==
  {c \in Range(chunk_index) : c.chapter_id = ch_id /\ CurrentScore2(c) > 0}

Min(a, b) == IF a < b THEN a ELSE b

\* C1: the list returned by search holds at most 2 chunks of any one chapter
C1_CapPerChapter ==
  s_pc = "returned" => \A ch \in ChapterIds : ResultsOfChapter(ch) <= 2

\* C1 witness: a chapter with 3 or more positively scored chunks gave exactly
\* 2 of them although the result still had room
C1_Witness ==
  /\ s_pc = "returned"
  /\ Len(result) < top_chunks
  /\ \E ch \in ChapterIds :
       /\ Cardinality(PositiveOfChapter(ch)) >= 3
       /\ ResultsOfChapter(ch) = 2

\* C2: search returns at most top_chunks results, in non-increasing score
\* order, each with a positive score, and nothing when the index is empty or
\* no chunk scores above zero
C2_RankedPositiveBounded ==
  s_pc = "returned" =>
    /\ Len(result) <= top_chunks
    /\ \A i \in 1..Len(result) : result[i].score2 > 0
    /\ \A i, j \in 1..Len(result) : i < j => result[i].score2 >= result[j].score2
    /\ \A i \in 1..Len(result) :
         result[i].score2 = CurrentScore2(IndexChunk(result[i].chunk_id))
    /\ (chunk_index = <<>> => result = <<>>)
    /\ ((\A c \in Range(chunk_index) : CurrentScore2(c) = 0) => result = <<>>)

\* C2 witness: a full result whose scores really differ
C2_Witness ==
  /\ s_pc = "returned"
  /\ top_chunks >= 2
  /\ Len(result) = top_chunks
  /\ result[1].score2 > result[Len(result)].score2

\* C3 as claimed: the result size is min(top_chunks, sum over chapters of
\* min(2, positively scored chunks of the chapter)), and two chapters of 3
\* equally scored chunks with top_chunks = 4 give 2 chunks each
C3_SizeFormula ==
  s_pc = "returned" =>
    /\ Len(result) =
         Min(top_chunks,
             SetSum(ChapterIds,
                    [ch \in ChapterIds |-> Min(2, Cardinality(PositiveOfChapter(ch)))]))
    /\ ( /\ top_chunks = 4
         /\ ChapterIds = {1, 2}
         /\ \A ch \in ChapterIds : Cardinality(PositiveOfChapter(ch)) = 3
         /\ \A c, d \in Range(chunk_index) : CurrentScore2(c) = CurrentScore2(d)
         => \A ch \in ChapterIds : ResultsOfChapter(ch) = 2 )

\* the only match of a chunk is keyword kw in its section title
OnlySectionMatch(chunk, kw, pk, ok) ==
  /\ Contains(kw, lower(chunk.section_title))
  /\ count(lower(chunk.section_title), kw) = 1
  /\ \A k \in pk \cup ok :
       /\ ~Contains(k, lower(chunk.chapter_title))
       /\ ~Contains(k, lower(chunk.text))
       /\ k \notin {lower(t) : t \in Range(chunk.keywords)}
       /\ (k # kw /\ Contains(k, lower(chunk.section_title)))
            => (kw \in pk /\ k \in stripped_forms(kw))

\* chunks matched by one priority keyword, once in the section title and
\* nowhere else
PriorityOnly ==
  {a \in Range(chunk_index) :
     \E p \in priority_keywords \ other_keywords :
       OnlySectionMatch(a, p, priority_keywords, other_keywords)}

\* chunks matched by one other keyword, once in the section title and
\* nowhere else
OtherOnly ==
  {b \in Range(chunk_index) :
     \E o \in other_keywords \ priority_keywords :
       OnlySectionMatch(b, o, priority_keywords, other_keywords)}

\* C4: a chunk matched once in its section title by a priority keyword scores
\* strictly higher than a chunk matched once in its section title by an other
\* (adapter) keyword, and precedes it in the result
C4_PriorityOutranksOther ==
  s_pc = "returned" =>
    LET A == PriorityOnly
        B == OtherOnly
    IN /\ \A a \in A, b \in B : CurrentScore2(a) > CurrentScore2(b)
       /\ \A i, j \in 1..Len(result) :
            (IndexChunk(result[i].chunk_id) \in A /\ IndexChunk(result[j].chunk_id) \in B)
              => (result[i].score2 > result[j].score2 /\ i < j)

\* C4 witness: both chunks are in the returned result
C4_Witness ==
  /\ s_pc = "returned"
  /\ \E i, j \in 1..Len(result) :
       /\ IndexChunk(result[i].chunk_id) \in PriorityOnly
       /\ IndexChunk(result[j].chunk_id) \in OtherOnly

\* the adapter failed for this search: no client, or the oracle call failed
AdapterFailed == ~llm \/ llm_reply.kind = "none"

\* the literal tokens of the question: not a stop word, 3 letters or more
LiteralTokens ==
  {w \in Range(findall_letters(lower(query))) : w \notin stop_words /\ Len(w) > 2}

\* keywords that come from the question alone: the literal tokens with their
\* corrected and stripped forms, and the words of the question itself
QuestionKeywords ==
  priority_keywords \cup Range(split(lower(query))) \cup Range(findall_letters(lower(query)))

Matches(kw, chunk) ==
  \/ Contains(kw, lower(chunk.section_title))
  \/ Contains(kw, lower(chunk.chapter_title))
  \/ Contains(kw, lower(chunk.text))
  \/ kw \in {lower(t) : t \in Range(chunk.keywords)}

\* C5: when the adapter fails, search returns (does not raise), the result is
\* not empty if some chunk text holds a literal token of the question and a
\* result was asked for, and every returned chunk is matched by a keyword
\* that comes from the question
C5_FallbackLaw ==
  (AdapterFailed /\ s_pc # "call") =>
    /\ s_pc = "returned"
    /\ ( /\ top_chunks >= 1
         /\ \E c \in Range(chunk_index) : \E w \in LiteralTokens :
              Contains(w, lower(c.text))
         => result # <<>> )
    /\ \A i \in 1..Len(result) :
         \E kw \in QuestionKeywords : Matches(kw, IndexChunk(result[i].chunk_id))

\* C5 witness: the oracle call failed and the literal token still found chunks
C5_Witness ==
  /\ llm /\ llm_reply.kind = "none"
  /\ s_pc = "returned"
  /\ result # <<>>
  /\ \E w \in LiteralTokens : Contains(w, lower(IndexChunk(result[1].chunk_id).text))

\* C6 as claimed: understand_query never raises, and on a failed call, a
\* malformed reply or a reply without search terms it returns exactly
\* {search_terms: [query], chapters: []}
C6_UnderstandNeverRaises ==
  (llm /\ s_pc # "call") =>
    /\ uq.status = "returned"
    /\ ( \/ llm_reply.kind \in {"none", "notjson", "nonobject"}
         \/ ~llm_reply.has_terms
         \/ llm_reply.terms = <<>> )
       => (uq.search_terms = <<query>> /\ uq.chapters = <<>>)

\* recommended_chapters of this call: the chapter titles the adapter flagged
FlaggedChapters == Range(_understand_query(query, llm, llm_reply).chapters)

\* the adapter's reply with its chapters taken out
UnflaggedReply == [llm_reply EXCEPT !.has_chapters = FALSE, !.chapters = <<>>]

\* the score the chunk gets in the same call when no chapter is flagged
UnflaggedScore2(chunk) ==
  LET u == _understand_query(query, llm, UnflaggedReply)
      pw == priority_words_for(query)
      keywords == merged_keywords(pw, u.keywords)
      pk == priority_keywords_of(pw)
      ok == other_keywords_of(keywords, pk)
  IN chunk_score2(chunk, pk, ok)

\* C20: a scored chunk of a chapter the adapter flagged carries twice the
\* score the same chunk gets when its chapter is not flagged
C20_ChapterBonus ==
  s_pc = "returned" =>
    \A i \in 1..Len(all_chunks) :
      all_chunks[i].chapter_title \in FlaggedChapters =>
        all_chunks[i].score2 = 2 * UnflaggedScore2(IndexChunk(all_chunks[i].chunk_id))

---------------------------------------------------------------------------
(* handle_message: the escalation logic of src/src/handlers.py *)

\* config.py
TOP_K_RESULTS == 3
MIN_RELEVANCE_SCORE == 15     \* 0.15 in hundredths
DAILY_REQUEST_LIMIT == 500

\* Scores of vector_store.search are kept in hundredths (score100 = 100 * score).
\* No score is below MIN_RELEVANCE_SCORE: semantic hits below it are dropped
\* (vector_store.py 240) and keyword hits start at 0.5 (vector_store.py 207).
Scores == {MIN_RELEVANCE_SCORE, 50}

\* the chunks of the vector store: metadata id and chapter, and the text
StoreChunks ==
  { [id |-> "x1", chapter |-> "A", text |-> <<"o","b","z","o","r">>],
    [id |-> "x2", chapter |-> "A", text |-> <<"p","l","a","n","y">>],
    [id |-> "x3", chapter |-> "B", text |-> <<"t","e","m","a">>] }

Hit(chunk, score) ==
  [id |-> chunk.id, chapter |-> chunk.chapter, text |-> chunk.text, score |-> score]

\* what one call vector_store.search(query, n_results=n) can hand back when
\* the chunks it may draw from are `pool`: at most n hits (at most MaxHits in
\* the runs explored), one per chunk id, highest score first
SearchOutcomes(pool, n) ==
  LET limit == IF n < MaxHits THEN n ELSE MaxHits
      HitsOf == {Hit(c, s) : c \in pool, s \in Scores}
  IN {hits \in UNION {[1..k -> HitsOf] : k \in 0..limit} :
        /\ \A i, j \in 1..Len(hits) : i < j => hits[i].id # hits[j].id
        /\ \A i, j \in 1..Len(hits) : i < j => hits[i].score >= hits[j].score}

\* vector_store.search(query, n_results=n)
search_store(n) == SearchOutcomes(StoreChunks, n)

\* vector_store.search(term, n_results=n, chapters=[chapter]): retrieval
\* restricted to the chunks of the named chapter
search_in_chapter(chapter, n) ==
  SearchOutcomes({c \in StoreChunks : c.chapter = chapter}, n)

\* str.strip()
RECURSIVE strip(_)
strip(s) ==
  IF s = <<>> THEN s
  ELSE IF Head(s) = " " THEN strip(Tail(s))
  ELSE IF s[Len(s)] = " " THEN strip(SubSeq(s, 1, Len(s) - 1))
  ELSE s

\* stop of check_keyword_match
stop ==
  {
    <<"n","a","j","d","i">>, <<"p","o","k","a","zh","i">>,
    <<"r","a","s","s","k","a","zh","i">>, <<"m","o","d","e","l","soft">>,
    <<"k","a","k","o","j">>, <<"k","a","k","a","ya">>,
    <<"k","a","k","i","e">>, <<"k","o","t","o","r","y","j">>
  }

\* re.findall(r'[letters]{5,}', s): the maximal letter runs of 5 or more
findall_5(s) == SelectSeq(findall_letters(s), LAMBDA w : Len(w) >= 5)

\* ' '.join(c.get('text', '').lower() for c in chunks)
RECURSIVE join_texts(_)
join_texts(chunks) ==
  IF chunks = <<>> THEN <<>>
  ELSE IF Len(chunks) = 1 THEN lower(chunks[1].text)
  ELSE lower(chunks[1].text) \o <<" ">> \o join_texts(Tail(chunks))

\* keywords of check_keyword_match
gate_keywords(q) == SelectSeq(findall_5(lower(q)), LAMBDA w : w \notin stop)

\* matches of check_keyword_match
gate_matches(q, chunks) ==
  LET keywords == gate_keywords(q)
      all_text == join_texts(chunks)
  IN Cardinality({i \in 1..Len(keywords) : Contains(keywords[i], all_text)})

\* mutant of check_keyword_match: every keyword has to be found
check_keyword_match_all(q, chunks) ==
  gate_keywords(q) = <<>> \/ gate_matches(q, chunks) = Len(gate_keywords(q))

\* check_keyword_match(query, chunks): match_ratio > 0.5
check_keyword_match(q, chunks) ==
  LET keywords == gate_keywords(q)
  IN IF keywords = <<>> THEN TRUE
     ELSE 2 * gate_matches(q, chunks) > Len(keywords)

\* has_good_score = relevant_chunks and any(score >= 0.5)
good_score(chunks) ==
  chunks # <<>> /\ \E i \in 1..Len(chunks) : chunks[i].score >= 50

\* has_keyword_match
keyword_match(q, chunks) ==
  IF chunks # <<>> THEN check_keyword_match(q, chunks) ELSE FALSE

\* mutant of good_results: either test is enough
good_results_either(score_ok, keywords_ok) == score_ok \/ keywords_ok

\* has_good_results = has_good_score and has_keyword_match
good_results(score_ok, keywords_ok) == score_ok /\ keywords_ok

\* mutant of after_gate: the expansion round always runs
after_gate_always(has_good_results) == "expand"

\* `if not has_good_results:` - where handle_message goes after the gate
after_gate(has_good_results) == IF has_good_results THEN "answer" ELSE "expand"

\* sorted(hits, key=score, reverse=True): stable
RECURSIVE sorted_by_score(_)
sorted_by_score(s) ==
  IF s = <<>> THEN <<>>
  ELSE LET front == sorted_by_score(SubSeq(s, 1, Len(s) - 1))
           x == s[Len(s)]
           k == Cardinality({i \in 1..Len(front) : front[i].score >= x.score})
       IN SubSeq(front, 1, k) \o <<x>> \o SubSeq(front, k + 1, Len(front))

\* s[:n]
Take(s, n) == SubSeq(s, 1, IF Len(s) < n THEN Len(s) ELSE n)

\* if chunk_id not in d or chunk['score'] > d[chunk_id]['score']: d[chunk_id] = chunk
put_if_better(d, hit) ==
  IF \E i \in 1..Len(d) : d[i].id = hit.id /\ d[i].score >= hit.score
  THEN d
  ELSE dict_put(d, hit)

RECURSIVE put_all_if_better(_, _)
put_all_if_better(d, hits) ==
  IF hits = <<>> THEN d
  ELSE put_all_if_better(put_if_better(d, Head(hits)), Tail(hits))

\* the `if chapter_chunks:` block: the best 2 of the chapter go to all_chunks
\* with all_chunks[chunk_id] = chunk
take_best_from_chapter(all, of_chapter) ==
  dict_put_all(all, Take(sorted_by_score(of_chapter), 2))

\* int(DAILY_REQUEST_LIMIT * WARNING_THRESHOLD) of RateLimiter.should_warn_admin
warn_threshold == (DAILY_REQUEST_LIMIT * 8) \div 10

\* RateLimiter.can_make_request (the day does not change while a message is handled)
can_make_request(requests) == requests < DAILY_REQUEST_LIMIT

\* RateLimiter.should_warn_admin
should_warn_admin(requests, warned) ==
  IF warned THEN FALSE ELSE requests >= warn_threshold

\* mutant of generate_answer: the relevance gate set at the acceptance threshold
generate_answer_gate_half(context_chunks, llm_ok) ==
  IF context_chunks = <<>> THEN "NO_CONTEXT_RESPONSE"
  ELSE IF \A i \in 1..Len(context_chunks) : context_chunks[i].score < 50
  THEN "LOW_RELEVANCE_RESPONSE"
  ELSE IF llm_ok THEN "answer" ELSE "error"

\* LLMClient.generate_answer: which kind of text comes back
generate_answer(context_chunks, llm_ok) ==
  IF context_chunks = <<>> THEN "NO_CONTEXT_RESPONSE"
  ELSE IF \A i \in 1..Len(context_chunks) :
            context_chunks[i].score < MIN_RELEVANCE_SCORE
  THEN "LOW_RELEVANCE_RESPONSE"
  ELSE IF llm_ok THEN "answer" ELSE "error"

\* chapters_in_results: the chunks grouped by metadata chapter, in first-seen order
RECURSIVE group_by_chapter(_, _)
group_by_chapter(groups, chunks) ==
  IF chunks = <<>> THEN groups
  ELSE LET c == Head(chunks)
           known == \E i \in 1..Len(groups) : groups[i].chapter = c.chapter
           next == IF known
                   THEN [i \in 1..Len(groups) |->
                           IF groups[i].chapter = c.chapter
                           THEN [groups[i] EXCEPT !.chunks = Append(@, c)]
                           ELSE groups[i]]
                   ELSE Append(groups, [chapter |-> c.chapter, chunks |-> <<c>>])
       IN group_by_chapter(next, Tail(chunks))

\* the entry handle_message stores in _search_context
search_context_entry(q, chunks, expanded_flag) ==
  [query |-> q, chunks |-> chunks, chapters |-> group_by_chapter(<<>>, chunks),
   is_expanded |-> expanded_flag, search_depth |-> 1]

---------------------------------------------------------------------------
(* Inputs of handle_message *)

Users == {"u1", "u2"}

\* "obzor plany": two significant words
HQ_two == W_obzor \o <<" ">> \o <<"p","l","a","n","y">>
\* "obzor obzor plany": a significant word repeated
HQ_rep == W_obzor \o <<" ">> \o HQ_two
\* "Najdi obzor?": a stop word of the gate, capitals and punctuation, surrounded by blanks
HQ_stop == <<" ","N","a","j","d","i"," ">> \o W_obzor \o <<"?"," ">>
\* "tema": no word of five letters
HQ_short == W_tema
\* blanks only
HQ_blank == <<" "," ">>

Messages == {HQ_two, HQ_rep, HQ_stop, HQ_short, HQ_blank}

ChapterNames == {"A", "B"}

\* replies of LLMClient.expand_query: search terms (named by their position)
\* and chapter names, both possibly empty, chapters possibly repeated
ExpandReplies ==
  UNION { { [search_terms |-> [i \in 1..n |-> i], chapters |-> ch] :
              ch \in UNION {[1..k -> ChapterNames] :
                              k \in {m \in 0..MaxSearches : n * m <= MaxSearches}} } :
          n \in 0..MaxSearches }

None == "None"

\* _search_context = {}
EmptyContext == <<>>

\* _search_context[user] = entry
context_put(contexts, user, entry) ==
  [u \in (DOMAIN contexts) \cup {user} |-> IF u = user THEN entry ELSE contexts[u]]

ChunkIds == {c.id : c \in StoreChunks}

\* per chunk id the highest score among the hits seen so far (0: not seen)
note_found(best, hits) ==
  [id \in ChunkIds |->
     LET seen == {hits[i].score : i \in {k \in 1..Len(hits) : hits[k].id = id}}
     IN IF seen = {} THEN best[id]
        ELSE LET top == CHOOSE s \in seen : \A t \in seen : t <= s
             IN IF top > best[id] THEN top ELSE best[id]]

---------------------------------------------------------------------------
(* handle_message as a state machine: one step per call of the vector store
   or of the LLM client *)

\* one message, sent by user u1, is handled; no search context is stored yet
InitHandler ==
  /\ user_id = "u1"
  /\ message_text \in Messages
  /\ store_ready \in BOOLEAN
  /\ requests_today \in {0, DAILY_REQUEST_LIMIT}
  /\ warning_sent = FALSE
  /\ h_pc = "start"
  /\ question = <<>>
  /\ relevant_chunks = <<>>
  /\ is_expanded = FALSE
  /\ direct_chunks = None
  /\ has_good_score = FALSE
  /\ has_keyword_match = FALSE
  /\ expanded = None
  /\ chapter_i = 1
  /\ term_j = 1
  /\ chapter_chunks = <<>>
  /\ found_chunks = <<>>
  /\ calls = <<>>
  /\ best_found = [id \in ChunkIds |-> 0]
  /\ answer = None
  /\ sent_reply = None
  /\ _search_context = EmptyContext

\* handlers.py 105-130: strip, the three early returns, the typing status
Receive ==
  /\ h_pc = "start"
  /\ question' = strip(message_text)
  /\ IF question' = <<>>
     THEN /\ h_pc' = "done" /\ sent_reply' = None
     ELSE IF ~store_ready
     THEN /\ h_pc' = "done" /\ sent_reply' = "unavailable"
     ELSE IF ~can_make_request(requests_today)
     THEN /\ h_pc' = "done" /\ sent_reply' = "limit"
     ELSE /\ h_pc' = "typing" /\ sent_reply' = None
  /\ UNCHANGED <<user_id, message_text, store_ready, requests_today, warning_sent,
                 relevant_chunks, is_expanded, direct_chunks, has_good_score,
                 has_keyword_match, expanded, chapter_i, term_j, chapter_chunks,
                 found_chunks, calls, best_found, answer, _search_context>>

\* handlers.py 133-172: the direct search and the quality gate
DirectSearch ==
  /\ h_pc = "typing"
  /\ \E hits \in search_store(TOP_K_RESULTS) :
       /\ relevant_chunks' = hits
       /\ direct_chunks' = hits
       /\ is_expanded' = FALSE
       /\ has_good_score' = good_score(hits)
       /\ has_keyword_match' = keyword_match(question, hits)
       /\ h_pc' = after_gate(good_results(has_good_score', has_keyword_match'))
  /\ calls' = Append(calls, "search")
  /\ UNCHANGED <<user_id, message_text, store_ready, requests_today, warning_sent,
                 question, expanded, chapter_i, term_j, chapter_chunks,
                 found_chunks, best_found, answer, sent_reply, _search_context>>

\* handlers.py 176-184, 212-214: the expansion oracle and the choice of branch
ExpandQuery ==
  /\ h_pc = "expand"
  /\ \E e \in ExpandReplies :
       /\ expanded' = e
       /\ h_pc' = IF e.search_terms # <<>> /\ e.chapters # <<>> THEN "chapters"
                  ELSE IF e.search_terms # <<>> THEN "terms"
                  ELSE "answer"
  /\ calls' = Append(calls, "expand_query")
  /\ chapter_i' = 1
  /\ term_j' = 1
  /\ chapter_chunks' = <<>>
  /\ found_chunks' = <<>>
  /\ UNCHANGED <<user_id, message_text, store_ready, requests_today, warning_sent,
                 question, relevant_chunks, is_expanded, direct_chunks,
                 has_good_score, has_keyword_match, best_found, answer, sent_reply,
                 _search_context>>

\* handlers.py 187-210: one search of a term in a chapter; after the last term
\* of a chapter its best chunks are taken; after the last chapter the result
\* list is cut to 6
SearchChapter ==
  /\ h_pc = "chapters"
  /\ \E hits \in search_in_chapter(expanded.chapters[chapter_i], 2) :
       LET merged == put_all_if_better(chapter_chunks, hits)
           last_term == term_j = Len(expanded.search_terms)
           last_chapter == chapter_i = Len(expanded.chapters)
           taken == IF last_term
                    THEN take_best_from_chapter(found_chunks, merged)
                    ELSE found_chunks
       IN /\ best_found' = note_found(best_found, hits)
          /\ chapter_chunks' = IF last_term THEN <<>> ELSE merged
          /\ found_chunks' = taken
          /\ term_j' = IF last_term THEN 1 ELSE term_j + 1
          /\ chapter_i' = IF last_term THEN chapter_i + 1 ELSE chapter_i
          /\ IF last_term /\ last_chapter
             THEN /\ relevant_chunks' = Take(sorted_by_score(taken), 6)
                  /\ is_expanded' = TRUE
                  /\ h_pc' = "answer"
             ELSE UNCHANGED <<relevant_chunks, is_expanded, h_pc>>
  /\ calls' = Append(calls, "search")
  /\ UNCHANGED <<user_id, message_text, store_ready, requests_today, warning_sent,
                 question, direct_chunks, has_good_score, has_keyword_match,
                 expanded, answer, sent_reply, _search_context>>

\* handlers.py 214-224: one search of a term in the whole store; after the
\* last term the result list is cut to 5
SearchTerm ==
  /\ h_pc = "terms"
  /\ \E hits \in search_store(3) :
       LET merged == put_all_if_better(found_chunks, hits)
           last_term == term_j = Len(expanded.search_terms)
       IN /\ best_found' = note_found(best_found, hits)
          /\ found_chunks' = merged
          /\ term_j' = term_j + 1
          /\ IF last_term
             THEN /\ relevant_chunks' = Take(sorted_by_score(merged), 5)
                  /\ is_expanded' = TRUE
                  /\ h_pc' = "answer"
             ELSE UNCHANGED <<relevant_chunks, is_expanded, h_pc>>
  /\ calls' = Append(calls, "search")
  /\ UNCHANGED <<user_id, message_text, store_ready, requests_today, warning_sent,
                 question, direct_chunks, has_good_score, has_keyword_match,
                 expanded, chapter_i, chapter_chunks, answer, sent_reply,
                 _search_context>>

\* handlers.py 227-279: the answer, the request count, the admin warning,
\* the stored search context and the sent_reply
GenerateAnswer ==
  /\ h_pc = "answer"
  /\ \E llm_ok \in BOOLEAN :
       answer' = generate_answer(relevant_chunks, llm_ok)
  /\ calls' = Append(calls, "generate_answer")
  /\ requests_today' = requests_today + 1
  /\ warning_sent' = (warning_sent \/ should_warn_admin(requests_today', warning_sent))
  /\ _search_context' =
       context_put(_search_context, user_id,
                   search_context_entry(question, relevant_chunks, is_expanded))
  /\ sent_reply' = answer'
  /\ h_pc' = "done"
  /\ UNCHANGED <<user_id, message_text, store_ready, question, relevant_chunks,
                 is_expanded, direct_chunks, has_good_score, has_keyword_match,
                 expanded, chapter_i, term_j, chapter_chunks, found_chunks,
                 best_found>>

\* TreeSearcher.search is not running
SearchIdle ==
  /\ chunk_index = <<>>
  /\ llm = FALSE
  /\ llm_reply = NoReply
  /\ query = <<>>
  /\ top_chunks = 0
  /\ uq = NotCalled
  /\ s_pc = "idle"
  /\ priority_keywords = {}
  /\ other_keywords = {}
  /\ all_chunks = <<>>
  /\ result = <<>>

Init ==
  /\ InitHandler
  /\ SearchIdle
  /\ ButtonIdle
  /\ TreeIdle
  /\ ChaptersIdle
  /\ StoreIdle
  /\ RestIdle

Next ==
  \/ (Receive /\ UNCHANGED beside_handler_vars)
  \/ (DirectSearch /\ UNCHANGED beside_handler_vars)
  \/ (ExpandQuery /\ UNCHANGED beside_handler_vars)
  \/ (SearchChapter /\ UNCHANGED beside_handler_vars)
  \/ (SearchTerm /\ UNCHANGED beside_handler_vars)
  \/ (GenerateAnswer /\ UNCHANGED beside_handler_vars)

Spec == Init /\ [][Next]_vars

---------------------------------------------------------------------------
(* Properties of handle_message *)

\* the direct search has returned and the quality gate has been evaluated
GateEvaluated == calls # <<>>

\* llm_client.expand_query has been called
ExpansionCalled == \E k \in 1..Len(calls) : calls[k] = "expand_query"

\* the hits of the direct round
DirectHits == IF GateEvaluated THEN direct_chunks ELSE <<>>

\* the significant words of the question: lower-case letter runs of five or
\* more letters outside the stop list of the gate, one entry per occurrence
SignificantWords == gate_keywords(question)

\* how many of them occur in the text of some chunk of the direct round
SignificantFound ==
  Cardinality({i \in 1..Len(SignificantWords) :
                 \E k \in 1..Len(DirectHits) :
                    Contains(SignificantWords[i], lower(DirectHits[k].text))})

DirectReachesThreshold == \E k \in 1..Len(DirectHits) : DirectHits[k].score >= 50

\* the direct results were accepted: no expansion round, is_expanded false
AcceptedDirect ==
  /\ h_pc \in {"answer", "done"}
  /\ ~ExpansionCalled
  /\ is_expanded = FALSE

\* handle_message is in, or has been through, the expansion round
EnteredExpansion == h_pc = "expand" \/ ExpansionCalled

C8_NoAcceptOnScoreAlone ==
  (/\ GateEvaluated
   /\ \/ DirectHits = <<>>
      \/ ~DirectReachesThreshold
      \/ 2 * SignificantFound < Len(SignificantWords))
  => (EnteredExpansion /\ ~AcceptedDirect)

\* a score at the threshold, none of two significant words found, and the
\* expansion oracle has been called
C8_Witness ==
  /\ DirectReachesThreshold
  /\ Len(SignificantWords) = 2
  /\ SignificantFound = 0
  /\ ExpansionCalled

\* C9: expand_query is called only after the direct search has returned and
\* the gate has judged its results insufficient; when the gate accepts,
\* handle_message finishes without calling expand_query.
C9_ExpandOnlyAfterRejection ==
  /\ \A k \in 1..Len(calls) :
       calls[k] = "expand_query" =>
         /\ k > 1
         /\ calls[1] = "search"
         /\ ~(has_good_score /\ has_keyword_match)
  /\ (GateEvaluated /\ has_good_score /\ has_keyword_match)
       => (~ExpansionCalled /\ h_pc \in {"answer", "done"})

\* a handling that ended after the direct search, the expansion oracle and
\* an expansion search, in that order
C9_Witness ==
  /\ h_pc = "done"
  /\ Len(calls) >= 4
  /\ calls[1] = "search"
  /\ calls[2] = "expand_query"
  /\ calls[3] = "search"
  /\ DirectHits # <<>>

\* C10: after an expansion round the list handed to generate_answer holds
\* each chunk id at most once, and each chunk with the highest score any
\* search of the round returned for it.
C10_DedupKeepsBest ==
  (is_expanded /\ h_pc \in {"answer", "done"}) =>
    /\ \A i, j \in 1..Len(relevant_chunks) :
         i # j => relevant_chunks[i].id # relevant_chunks[j].id
    /\ \A i \in 1..Len(relevant_chunks) :
         relevant_chunks[i].score = best_found[relevant_chunks[i].id]

\* the same without a chapter named twice in the reply of expand_query
C10_DedupKeepsBestDistinctChapters ==
  (/\ is_expanded
   /\ h_pc \in {"answer", "done"}
   /\ \A i, j \in 1..Len(expanded.chapters) :
        i # j => expanded.chapters[i] # expanded.chapters[j])
  => \A i \in 1..Len(relevant_chunks) :
       relevant_chunks[i].score = best_found[relevant_chunks[i].id]

\* the ids of the chunks of a list
IdsOf(chunks) == {chunks[i].id : i \in 1..Len(chunks)}

\* the expansion round ran its searches and none of them returned a chunk
ExpansionFoundNothing ==
  /\ ExpansionCalled
  /\ expanded.search_terms # <<>>
  /\ \A id \in ChunkIds : best_found[id] = 0

\* C11: when the expansion round runs, the chunks of the direct round stay in
\* the list handed to generate_answer; if the expansion searches found
\* nothing, that list is the list of the direct round.
C11_DirectChunksKept ==
  (h_pc \in {"answer", "done"} /\ ExpansionCalled) =>
    /\ IdsOf(DirectHits) \subseteq IdsOf(relevant_chunks)
    /\ (ExpansionFoundNothing /\ DirectHits # <<>>) => relevant_chunks = DirectHits

\* the list handed to generate_answer was built by the expansion searches
FromExpansion == ExpansionCalled /\ expanded.search_terms # <<>>

---------------------------------------------------------------------------
(* button_callback of src/src/handlers.py: the buttons under an answer.
   Updates are handled one at a time (main.py builds the Application without
   concurrent updates), so a button is handled from start to end before the
   next update. *)

\* callback_data of the buttons: "chapter_<idx>" and "search_other"
ChapterButton(idx) == [kind |-> "chapter", idx |-> idx]
SearchOtherButton == [kind |-> "search_other", idx |-> 0]
Buttons == {ChapterButton(0), ChapterButton(1), ChapterButton(2), SearchOtherButton}

\* the question the stored contexts belong to
ButtonQuestion == HQ_two

\* the contexts handle_message can have stored for it: any list a search
\* round hands over, at depth 1
StoredContexts ==
  {search_context_entry(ButtonQuestion, hits, FALSE) : hits \in search_store(TOP_K_RESULTS)}

\* mutant of depth_exhausted: one round more
depth_exhausted_late(search_depth) == search_depth >= 4

\* if search_depth >= 3
depth_exhausted(search_depth) == search_depth >= 3

\* mutant of not_shown: nothing is excluded
not_shown_all(chunks, shown) == chunks

\* shown_ids and the filter of new_chunks: the chunks whose id was not shown
not_shown(chunks, shown) ==
  SelectSeq(chunks, LAMBDA c : c.id \notin IdsOf(shown))

\* new_chunks = sorted([c for c in all_chunks.values() if id not in shown_ids])[:5]
new_chunks_of(all, shown) == Take(sorted_by_score(not_shown(all, shown)), 5)

InitButtons ==
  /\ user_id = "u1"
  /\ message_text = <<>>
  /\ store_ready = TRUE
  /\ requests_today = 0
  /\ warning_sent = FALSE
  /\ h_pc = "idle"
  /\ question = <<>>
  /\ relevant_chunks = <<>>
  /\ is_expanded = FALSE
  /\ direct_chunks = None
  /\ has_good_score = FALSE
  /\ has_keyword_match = FALSE
  /\ expanded = None
  /\ chapter_i = 1
  /\ term_j = 1
  /\ chapter_chunks = <<>>
  /\ found_chunks = <<>>
  /\ calls = <<>>
  /\ best_found = [id \in ChunkIds |-> 0]
  /\ answer = None
  /\ sent_reply = None
  /\ _search_context \in
       {EmptyContext} \cup {context_put(EmptyContext, "u1", c) : c \in StoredContexts}
  /\ callback_data = None
  /\ new_chunks = <<>>
  /\ SearchIdle
  /\ TreeIdle
  /\ ChaptersIdle
  /\ StoreIdle
  /\ RestIdle

\* what button_callback leaves alone of the locals of handle_message
button_unused == <<user_id, message_text, store_ready, warning_sent, question,
                   relevant_chunks, is_expanded, direct_chunks, has_good_score,
                   has_keyword_match, chapter_chunks, best_found>>

\* handlers.py 376-446: the stored context is looked up; without one the user
\* is told it is stale; a chapter button beyond the stored chapters and a
\* search_other at full depth are answered at once
PressButton ==
  /\ h_pc = "idle"
  /\ requests_today < MaxRequests
  /\ \E b \in Buttons :
       /\ callback_data' = b
       /\ IF user_id \notin DOMAIN _search_context
          THEN /\ sent_reply' = "stale" /\ h_pc' = "idle"
          ELSE LET search_ctx == _search_context[user_id]
               IN IF b.kind = "chapter"
                  THEN IF b.idx >= Len(search_ctx.chapters)
                       THEN /\ sent_reply' = "chapter not found" /\ h_pc' = "idle"
                       ELSE /\ sent_reply' = None /\ h_pc' = "b_chapter"
                  ELSE IF depth_exhausted(search_ctx.search_depth)
                       THEN /\ sent_reply' = "exhausted" /\ h_pc' = "idle"
                       ELSE /\ sent_reply' = None /\ h_pc' = "b_expand"
  /\ calls' = <<>>
  /\ new_chunks' = <<>>
  /\ found_chunks' = <<>>
  /\ expanded' = None
  /\ answer' = None
  /\ chapter_i' = 1
  /\ term_j' = 1
  /\ UNCHANGED <<requests_today, _search_context>>
  /\ UNCHANGED button_unused

\* handlers.py 412-428: more chunks of the chapter of the button
ChapterDetails ==
  /\ h_pc = "b_chapter"
  /\ LET search_ctx == _search_context[user_id]
         chapter_name == search_ctx.chapters[callback_data.idx + 1].chapter
     IN \E more_chunks \in search_in_chapter(chapter_name, 5), llm_ok \in BOOLEAN :
          IF more_chunks # <<>>
          THEN /\ answer' = generate_answer(more_chunks, llm_ok)
               /\ requests_today' = requests_today + 1
               /\ sent_reply' = "chapter details"
          ELSE /\ sent_reply' = "no more in chapter"
               /\ UNCHANGED <<answer, requests_today>>
  /\ calls' = Append(calls, "search")
  /\ h_pc' = "idle"
  /\ UNCHANGED <<expanded, chapter_i, term_j, found_chunks, _search_context,
                 callback_data, new_chunks>>
  /\ UNCHANGED button_unused

\* handlers.py 449-455: the expansion oracle
ButtonExpand ==
  /\ h_pc = "b_expand"
  /\ \E e \in ExpandReplies :
       /\ expanded' = e
       /\ h_pc' = IF e.search_terms # <<>> /\ e.chapters # <<>>
                  THEN "b_search" ELSE "b_finish"
  /\ calls' = Append(calls, "expand_query")
  /\ UNCHANGED <<chapter_i, term_j, found_chunks, answer, sent_reply,
                 requests_today, _search_context, callback_data, new_chunks>>
  /\ UNCHANGED button_unused

\* handlers.py 455-461: one search of a term in a chapter, 4 results at most
ButtonSearch ==
  /\ h_pc = "b_search"
  /\ \E hits \in search_in_chapter(expanded.chapters[chapter_i], 4) :
       found_chunks' = put_all_if_better(found_chunks, hits)
  /\ LET last_term == term_j = Len(expanded.search_terms)
         last_chapter == chapter_i = Len(expanded.chapters)
     IN /\ term_j' = IF last_term THEN 1 ELSE term_j + 1
        /\ chapter_i' = IF last_term THEN chapter_i + 1 ELSE chapter_i
        /\ h_pc' = IF last_term /\ last_chapter THEN "b_finish" ELSE "b_search"
  /\ calls' = Append(calls, "search")
  /\ UNCHANGED <<expanded, answer, sent_reply, requests_today, _search_context,
                 callback_data, new_chunks>>
  /\ UNCHANGED button_unused

\* handlers.py 463-488: the shown chunks are left out; new chunks are answered
\* from, appended to the stored chunks and the depth is raised
FinishSearchOther ==
  /\ h_pc = "b_finish"
  /\ LET search_ctx == _search_context[user_id]
         fresh == new_chunks_of(found_chunks, search_ctx.chunks)
     IN /\ new_chunks' = fresh
        /\ IF fresh # <<>>
           THEN /\ \E llm_ok \in BOOLEAN : answer' = generate_answer(fresh, llm_ok)
                /\ calls' = Append(calls, "generate_answer")
                /\ requests_today' = requests_today + 1
                /\ _search_context' =
                     context_put(_search_context, user_id,
                       [search_ctx EXCEPT !.chunks = @ \o fresh,
                                          !.search_depth = @ + 1])
                /\ sent_reply' = "more results"
           ELSE /\ sent_reply' = "nothing more"
                /\ UNCHANGED <<answer, calls, requests_today, _search_context>>
  /\ h_pc' = "idle"
  /\ UNCHANGED <<expanded, chapter_i, term_j, found_chunks, callback_data>>
  /\ UNCHANGED button_unused

NextButtons ==
  \/ (PressButton /\ UNCHANGED beside_button_vars)
  \/ (ChapterDetails /\ UNCHANGED beside_button_vars)
  \/ (ButtonExpand /\ UNCHANGED beside_button_vars)
  \/ (ButtonSearch /\ UNCHANGED beside_button_vars)
  \/ (FinishSearchOther /\ UNCHANGED beside_button_vars)

SpecButtons == InitButtons /\ [][NextButtons]_vars

---------------------------------------------------------------------------
(* Properties of button_callback *)

\* a search_other press is past the depth test and not yet answered
SearchOtherRunning == h_pc \in {"b_expand", "b_search", "b_finish"}

\* C13: the depth of a stored context never exceeds 3; the expansion oracle
\* and the searcher run for search_other only below depth 3, and the
\* exhaustion reply is sent at depth 3 without any call.
C13_DepthCap ==
  /\ \A u \in DOMAIN _search_context : _search_context[u].search_depth <= 3
  /\ SearchOtherRunning => _search_context[user_id].search_depth < 3
  /\ sent_reply = "exhausted" =>
       /\ calls = <<>>
       /\ h_pc = "idle"
       /\ _search_context[user_id].search_depth = 3

\* a search_other pressed at depth 3 was answered with the exhaustion reply
C13_Witness ==
  /\ sent_reply = "exhausted"
  /\ callback_data = SearchOtherButton
  /\ _search_context[user_id].search_depth = 3
  /\ calls = <<>>

\* C14: the chunks a search_other round answers from have ids that differ
\* from each other and from every chunk stored before the round (the chunks
\* of the first answer and of the earlier rounds), so the stored chunks never
\* hold an id twice.
C14_NoChunkTwice ==
  /\ \A u \in DOMAIN _search_context :
       LET shown == _search_context[u].chunks
       IN \A i, j \in 1..Len(shown) : i # j => shown[i].id # shown[j].id
  /\ sent_reply = "more results" =>
       LET shown == _search_context[user_id].chunks
           before == Len(shown) - Len(new_chunks)
       IN /\ new_chunks # <<>>
          /\ before >= 0
          /\ SubSeq(shown, before + 1, Len(shown)) = new_chunks
          /\ IdsOf(SubSeq(shown, 1, before)) \cap IdsOf(new_chunks) = {}
          /\ Cardinality(IdsOf(new_chunks)) = Len(new_chunks)

\* the second search_other round found a chunk not shown before although its
\* searches also returned a shown one
C14_Witness ==
  /\ sent_reply = "more results"
  /\ _search_context[user_id].search_depth = 3
  /\ Len(_search_context[user_id].chunks) = 3
  /\ Len(new_chunks) = 1
  /\ Len(found_chunks) = 2

---------------------------------------------------------------------------
(* ContextTree: load, _build_indexes, the lookups and get_stats *)

MaxLoads == 2         \* ContextTree.load() calls in the runs explored

\* the record stored in _chapter_index for one chapter of the walk
chapter_index_entry(book, chapter) ==
  [id |-> chapter.id, title |-> chapter.title, book_title |-> book.title]

\* the record stored in _section_index for one section of the walk
section_index_entry(book, chapter, section) ==
  [id |-> section.id, title |-> section.title, book_title |-> book.title,
   chapter_id |-> chapter.id, chapter_title |-> chapter.title]

\* the chapter records in the order the nested loops visit them
walk_chapters(t) ==
  Flatten([b \in 1..Len(t.books) |->
    [c \in 1..Len(t.books[b].chapters) |->
       chapter_index_entry(t.books[b], t.books[b].chapters[c])]])

\* the section records in the order the nested loops visit them
walk_sections(t) ==
  Flatten([b \in 1..Len(t.books) |->
    Flatten([c \in 1..Len(t.books[b].chapters) |->
      [s \in 1..Len(t.books[b].chapters[c].sections) |->
         section_index_entry(t.books[b], t.books[b].chapters[c],
                             t.books[b].chapters[c].sections[s])]])])

\* _chapter_index after _build_indexes on an index that held `old`
build_chapter_index(old, t) == dict_put_all(old, walk_chapters(t))

\* _section_index after _build_indexes on an index that held `old`
build_section_index(old, t) == dict_put_all(old, walk_sections(t))

\* ContextTree.get_chapter_chunks(chapter_id)
get_chapter_chunks(index, chapter_id) ==
  SelectSeq(index, LAMBDA chunk : chunk.chapter_id = chapter_id)

\* ContextTree.get_section_chunks(section_id)
get_section_chunks(index, section_id) ==
  SelectSeq(index, LAMBDA chunk : chunk.section_id = section_id)

\* ContextTree.get_stats() once a tree is loaded (without version and
\* created_at); len(tree['books']) counts every element of the list
get_stats ==
  [books |-> Len(self_tree[1].books) + self_tree[1].junk,
   chapters |-> Len(_chapter_index),
   sections |-> Len(_section_index),
   chunks |-> Len(chunk_index)]

Book(title, chapters) == [title |-> title, chapters |-> chapters]

\* a file at tree_path: `parses` tells whether json.load accepts it, `books`
\* are the well-formed books at the head of its 'books' list and `junk` the
\* number of elements after them that are no JSON objects
TreeFile(exists, parses, books, junk) ==
  [exists |-> exists, parses |-> parses, books |-> books, junk |-> junk]

\* the file at tree_path when load() opens it: absent, not JSON, a corpus
\* snapshot of no, one or two books whose ids are unique, or a snapshot
\* whose 'books' list ends in an element that is no object
TreeFiles ==
  {TreeFile(FALSE, FALSE, <<>>, 0), TreeFile(TRUE, FALSE, <<>>, 0),
   TreeFile(TRUE, TRUE, <<>>, 0)}
  \cup {TreeFile(TRUE, TRUE, <<Book(<<"b">>, <<c1>>)>>, 0) : c1 \in Chapters(1)}
  \cup {TreeFile(TRUE, TRUE,
                 <<Book(<<"b">>, <<MkChapter(1, W_obzor, <<S_one>>)>>),
                   Book(<<"c">>, <<c2>>)>>, 0) : c2 \in Chapters(2)}
  \cup {TreeFile(TRUE, TRUE, <<>>, 1),
        TreeFile(TRUE, TRUE, <<Book(<<"b">>, <<MkChapter(1, W_obzor, <<S_plan>>)>>)>>, 1)}

InitTree ==
  /\ TreeIdle
  /\ SearchIdle
  /\ HandlerIdle
  /\ ButtonIdle
  /\ ChaptersIdle
  /\ StoreIdle
  /\ RestIdle

\* ContextTree.load(): a missing file returns False at once; json.load
\* raising leaves self.tree as it was; a snapshot that parses is assigned to
\* self.tree and walked, and an element that is no object makes the walk
\* raise after the entries before it were stored; the exception is caught
Load ==
  /\ loads < MaxLoads
  /\ loads' = loads + 1
  /\ \E file \in TreeFiles :
       IF ~file.exists \/ ~file.parses
       THEN /\ load_returned' = "False"
            /\ UNCHANGED <<self_tree, _chapter_index, _section_index, chunk_index>>
       ELSE LET t == [books |-> file.books, junk |-> file.junk]
            IN /\ self_tree' = <<t>>
               /\ _chapter_index' = build_chapter_index(_chapter_index, t)
               /\ _section_index' = build_section_index(_section_index, t)
               /\ chunk_index' = build_chunk_index(chunk_index, t)
               /\ load_returned' = IF file.junk > 0 THEN "False" ELSE "True"
  /\ UNCHANGED <<llm, llm_reply, query, top_chunks, uq, s_pc,
                 priority_keywords, other_keywords, all_chunks, result>>
  /\ UNCHANGED <<handler_vars, button_vars, chapter_vars, store_vars, rest_vars>>

NextTree == Load

SpecTree == InitTree /\ [][NextTree]_vars

---------------------------------------------------------------------------
(* Properties of ContextTree *)

\* the counts obtained by walking the nested snapshot t
WalkCounts(t) ==
  [books |-> Len(t.books),
   chapters |-> Len(walk_chapters(t)),
   sections |-> Len(walk_sections(t)),
   chunks |-> Len(walk_chunks(t))]

\* the places of the loaded tree at which a chunk with this id is nested
NestedAt(chunk_id) ==
  LET w == walk_chunks(self_tree[1])
  IN {j \in 1..Len(w) : w[j].id = chunk_id}

\* C18: after a successful load the lookups return only chunks of the chapter
\* or section asked for, and every chunk of the chunk index is nested at
\* exactly one place of the loaded tree, whose chapter and section are the
\* ones that its chapter_id and section_id name
C18_NoOrphans ==
  load_returned = "True" =>
    /\ \A c \in {e.chapter_id : e \in Range(chunk_index)} \cup {1, 2} :
         \A i \in 1..Len(get_chapter_chunks(chunk_index, c)) :
           get_chapter_chunks(chunk_index, c)[i].chapter_id = c
    /\ \A s \in {e.section_id : e \in Range(chunk_index)} :
         \A i \in 1..Len(get_section_chunks(chunk_index, s)) :
           get_section_chunks(chunk_index, s)[i].section_id = s
    /\ \A i \in 1..Len(chunk_index) :
         /\ Cardinality(NestedAt(chunk_index[i].id)) = 1
         /\ \A j \in NestedAt(chunk_index[i].id) :
              /\ walk_chunks(self_tree[1])[j].chapter_id = chunk_index[i].chapter_id
              /\ walk_chunks(self_tree[1])[j].section_id = chunk_index[i].section_id

\* C19: after a successful load, also a repeated one, get_stats reports the
\* counts of books, chapters, sections and chunks of the snapshot just loaded
C19_StatsMatchWalk ==
  load_returned = "True" => get_stats = WalkCounts(self_tree[1])

---------------------------------------------------------------------------
(* SemanticChapterSearcher.search of src/src/tree_search.py.  It reads the   *)
(* chunk index of its ContextTree; query, top_chunks and the returned list  *)
(* are kept in the variables of the same names, s_pc tells how the call    *)
(* ended.                                                                  *)

MaxChapters == 2      \* largest top_chapters explored

\* one entry of embeddings['chapters']: has_embedding is FALSE for an empty
\* 'embedding' list; similarity is what _cosine_similarity gives for this
\* chapter's embedding and the embedding of the query
ChapterEmbedding(id, has_embedding, similarity) ==
  [id |-> id, has_embedding |-> has_embedding, similarity |-> similarity]

\* similarities.sort(key=similarity, reverse=True): stable
RECURSIVE sort_by_similarity(_)
sort_by_similarity(s) ==
  IF s = <<>> THEN <<>>
  ELSE LET front == sort_by_similarity(SubSeq(s, 1, Len(s) - 1))
           x == s[Len(s)]
           k == Cardinality({i \in 1..Len(front) : front[i].similarity >= x.similarity})
       IN SubSeq(front, 1, k) \o <<x>> \o SubSeq(front, k + 1, Len(front))

\* SemanticChapterSearcher._find_similar_chapters(query_embedding, top_k)
_find_similar_chapters(chapters, top_k) ==
  Take(sort_by_similarity(SelectSeq(chapters, LAMBDA ch : ch.has_embedding)), top_k)

\* chapter_ids = [ch['id'] for ch in similar_chapters]
chapter_ids_of(chapters, top_k) ==
  LET similar_chapters == _find_similar_chapters(chapters, top_k)
  IN [i \in 1..Len(similar_chapters) |-> similar_chapters[i].id]

\* keywords of _keyword_search_in_chapters
chapter_search_keywords(q) ==
  SelectSeq(findall_letters(lower(q)), LAMBDA w : w \notin stop_words /\ Len(w) > 2)

\* SetSum over the positions of a list: a keyword that occurs twice counts twice
RECURSIVE SeqSum(_)
SeqSum(s) == IF s = <<>> THEN 0 ELSE Head(s) + SeqSum(Tail(s))

\* score (half points) of one chunk in _keyword_search_in_chapters
chapter_chunk_score2(chunk, keywords) ==
  LET text_lower == lower(chunk.text)
      section_lower == lower(chunk.section_title)
  IN SeqSum([i \in 1..Len(keywords) |->
        (IF Contains(keywords[i], text_lower)
         THEN count(text_lower, keywords[i]) * 4 ELSE 0)
        + (IF Contains(keywords[i], section_lower) THEN 10 ELSE 0)])

\* the loop over _chunk_index of _keyword_search_in_chapters
RECURSIVE chapter_scored_chunks(_, _, _)
chapter_scored_chunks(index, chapter_ids, keywords) ==
  IF index = <<>> THEN <<>>
  ELSE LET chunk == Head(index)
           score2 == chapter_chunk_score2(chunk, keywords)
       IN (IF chunk.chapter_id \in Range(chapter_ids) /\ score2 > 0
           THEN <<SearchResult(chunk, score2)>> ELSE <<>>)
          \o chapter_scored_chunks(Tail(index), chapter_ids, keywords)

\* SemanticChapterSearcher._keyword_search_in_chapters(chapter_ids, query, top_chunks)
_keyword_search_in_chapters(index, chapter_ids, q, top) ==
  Take(sort_by_score(chapter_scored_chunks(index, chapter_ids, chapter_search_keywords(q))), top)

\* mutant of fallback_chunks: the first three chunks of each chapter are taken
RECURSIVE fallback_chunks_three(_, _, _, _)
fallback_chunks_three(index, chapter_ids, top, results) ==
  IF chapter_ids = <<>> THEN results
  ELSE LET chunks == Take(get_chapter_chunks(index, Head(chapter_ids)), 3)
           added == results \o [i \in 1..Len(chunks) |-> SearchResult(chunks[i], 2)]
       IN IF Len(added) >= top THEN added
          ELSE fallback_chunks_three(index, Tail(chapter_ids), top, added)

\* the loop of search that runs when the keyword step found nothing: the
\* first two chunks of each chapter with score 1.0, until top chunks are there
RECURSIVE fallback_chunks(_, _, _, _)
fallback_chunks(index, chapter_ids, top, results) ==
  IF chapter_ids = <<>> THEN results
  ELSE LET chunks == Take(get_chapter_chunks(index, Head(chapter_ids)), 2)
           added == results \o [i \in 1..Len(chunks) |-> SearchResult(chunks[i], 2)]
       IN IF Len(added) >= top THEN added
          ELSE fallback_chunks(index, Tail(chapter_ids), top, added)

\* the corpora explored: chapter 1 with up to MaxSections sections, chapter 2
\* with one section or none
ChapterTrees ==
  {[books |-> <<Book(<<"b">>, <<c1, MkChapter(2, W_temy, kinds)>>)>>] :
     c1 \in Chapters(1), kinds \in {<<>>, <<S_rol>>}}

\* the embeddings files explored: none, or the two chapters in either order
EmbeddingFiles ==
  {<<>>} \cup
  {IF first = 1
   THEN <<ChapterEmbedding(1, h1, m[1]), ChapterEmbedding(2, h2, m[2])>>
   ELSE <<ChapterEmbedding(2, h2, m[2]), ChapterEmbedding(1, h1, m[1])>> :
     first \in {1, 2}, h1 \in BOOLEAN, h2 \in BOOLEAN,
     m \in {<<1, 2>>, <<2, 1>>, <<1, 1>>}}

InitChapters ==
  /\ chunk_index \in {build_chunk_index(<<>>, t) : t \in ChapterTrees}
  /\ llm = FALSE
  /\ llm_reply = NoReply
  /\ query \in Queries
  /\ top_chunks \in 0..MaxTop
  /\ uq = NotCalled
  /\ s_pc = "call"
  /\ priority_keywords = {}
  /\ other_keywords = {}
  /\ all_chunks = <<>>
  /\ result = <<>>
  /\ embeddings \in EmbeddingFiles
  /\ embed_result \in {"embedding", "raises"}
  /\ top_chapters \in 0..MaxChapters
  /\ HandlerIdle
  /\ ButtonIdle
  /\ TreeIdle
  /\ StoreIdle
  /\ RestIdle

\* SemanticChapterSearcher.search(query, top_chapters, top_chunks)
SemanticSearch ==
  /\ s_pc = "call"
  /\ IF embeddings = <<>>
     THEN /\ s_pc' = "returned"
          /\ result' = <<>>
     ELSE IF embed_result = "raises"
     THEN /\ s_pc' = "raised"
          /\ UNCHANGED result
     ELSE LET chapter_ids == chapter_ids_of(embeddings, top_chapters)
              results == _keyword_search_in_chapters(chunk_index, chapter_ids, query, top_chunks)
              final == IF results = <<>>
                       THEN fallback_chunks(chunk_index, chapter_ids, top_chunks, <<>>)
                       ELSE results
          IN /\ s_pc' = "returned"
             /\ result' = Take(final, top_chunks)
  /\ UNCHANGED <<chunk_index, llm, llm_reply, query, top_chunks, uq,
                 priority_keywords, other_keywords, all_chunks>>
  /\ UNCHANGED <<handler_vars, button_vars, tree_vars, chapter_vars, store_vars,
                 rest_vars>>

NextChapters == SemanticSearch

SpecChapters == InitChapters /\ [][NextChapters]_vars

---------------------------------------------------------------------------
(* Properties of SemanticChapterSearcher.search *)

\* the chapters selected by similarity, best first
SelectedChapters == chapter_ids_of(embeddings, top_chapters)

\* the chunks of the index that lie in a selected chapter
ChunksOfSelected ==
  {c \in Range(chunk_index) : c.chapter_id \in Range(SelectedChapters)}

\* the keyword step matches nothing inside the selected chapters
KeywordStepEmpty ==
  \A c \in ChunksOfSelected : chapter_chunk_score2(c, chapter_search_keywords(query)) = 0

\* the first (up to 2) chunks of each selected chapter, in chapter-rank order,
\* each with the placeholder score 1.0
FirstChunks ==
  Flatten([i \in 1..Len(SelectedChapters) |->
    LET chunks == get_chapter_chunks(chunk_index, SelectedChapters[i])
    IN [k \in 1..(IF Len(chunks) < 2 THEN Len(chunks) ELSE 2) |->
          SearchResult(chunks[k], 2)]])

\* the call got past the embedding of the question and returned
SemanticReturned == s_pc = "returned" /\ embeddings # <<>>

\* C17: every returned chunk lies in a selected chapter; when the keyword step
\* matches nothing the result is the first (up to 2) chunks of each selected
\* chapter in rank order with score 1.0, cut to top_chunks, and so holds a
\* chunk whenever a selected chapter has one (top_chunks >= 1)
C17_FallbackFirstChunks ==
  SemanticReturned =>
    /\ \A i \in 1..Len(result) :
         IndexChunk(result[i].chunk_id).chapter_id \in Range(SelectedChapters)
    /\ KeywordStepEmpty =>
         /\ result = Take(FirstChunks, top_chunks)
         /\ (top_chunks >= 1 /\ ChunksOfSelected # {}) => result # <<>>

\* the fallback ran over two chapters, one of which has more than two
\* chunks, and its list was cut to top_chunks
C17_Witness ==
  /\ SemanticReturned
  /\ KeywordStepEmpty
  /\ Len(SelectedChapters) = 2
  /\ Len(get_chapter_chunks(chunk_index, SelectedChapters[2])) > 2
  /\ Len(FirstChunks) > top_chunks
  /\ Len(result) = 2
  /\ result[1].chapter_title # result[2].chapter_title
  /\ result[1].score2 = 2

\* the keyword-only search over the full corpus: every chapter of the index
KeywordOnlyResults ==
  LET ids == {c.chapter_id : c \in Range(chunk_index)}
      every == CHOOSE s \in [1..Cardinality(ids) -> ids] : Range(s) = ids
  IN _keyword_search_in_chapters(chunk_index, every, query, top_chunks)

\* C16: when the embedding of the question fails the search does not raise
\* and returns the keyword-only results over the full corpus
C16_EmbedFailureDegrades ==
  (s_pc # "call" /\ embeddings # <<>> /\ embed_result = "raises") =>
    /\ s_pc = "returned"
    /\ result = KeywordOnlyResults

---------------------------------------------------------------------------
(* VectorStore.search of src/src/vector_store.py.  Scores are kept in       *)
(* hundredths; the keyword score 0.5 + (matches / len(keywords)) * 0.3 is   *)
(* 50 + 30 * matches / len(keywords), exact for the one to three keywords   *)
(* of the questions explored.                                              *)

MaxResults == 3       \* largest n_results explored

\* stop_words of VectorStore._extract_keywords
store_stop_words ==
  {
    <<"ch","t","o">>, <<"k","a","k">>, <<"g","d","e">>,
    <<"k","o","g","d","a">>, <<"k","a","k","o","j">>,
    <<"k","a","k","a","ya">>, <<"k","a","k","i","e">>,
    <<"k","a","k","i","h">>, <<"eh","t","o">>, <<"eh","t","a">>,
    <<"eh","t","i">>, <<"eh","t","o","t">>, <<"t","a","m">>, <<"t","u","t">>,
    <<"z","d","e","s","soft">>, <<"b","y","l","a">>, <<"b","y","l","o">>,
    <<"b","y","l","i">>, <<"b","y","t","soft">>, <<"e","s","t","soft">>,
    <<"n","e","t">>, <<"v","s","e">>, <<"v","s","yo">>,
    <<"v","e","s","soft">>, <<"v","s","ya">>, <<"o","n","i">>,
    <<"o","n","a">>, <<"o","n","o">>, <<"e","g","o">>, <<"d","l","ya">>,
    <<"p","r","i">>, <<"p","r","o">>, <<"n","a","d">>, <<"p","o","d">>,
    <<"m","e","zh","d","u">>, <<"ch","e","r","e","z">>,
    <<"p","o","s","l","e">>, <<"p","e","r","e","d">>,
    <<"m","o","zh","n","o">>, <<"n","u","zh","n","o">>, <<"n","a","d","o">>,
    <<"p","o","m","n","yu">>, <<"s","k","a","zh","i">>,
    <<"n","a","j","d","i">>, <<"p","o","k","a","zh","i">>,
    <<"r","a","s","s","k","a","zh","i">>,
    <<"o","b","hard","ya","s","n","i">>, <<"i","s","k","a","t","soft">>,
    <<"k","n","i","g","a">>, <<"k","n","i","g","e">>,
    <<"g","l","a","v","a">>, <<"g","l","a","v","e">>,
    <<"s","h","e","m","a">>, <<"s","h","e","m","y">>,
    <<"t","a","b","l","i","c","a">>, <<"t","a","b","l","i","c","y">>,
    <<"r","i","s","u","n","o","k">>, <<"m","o","d","e","l","soft">>,
    <<"m","o","d","e","l","i">>
  }

\* VectorStore._extract_keywords(query)
_extract_keywords(q) ==
  SelectSeq(findall_letters(lower(q)),
            LAMBDA w : Len(w) > 3 /\ w \notin store_stop_words)

\* matches = sum(1 for kw in keywords if kw in text_lower)
keyword_matches_of(chunk, keywords) ==
  Cardinality({i \in 1..Len(keywords) : Contains(keywords[i], lower(chunk.text))})

\* the loop over chunks_by_id that fills found
RECURSIVE keyword_found_in(_, _)
keyword_found_in(chunks, keywords) ==
  IF chunks = <<>> THEN <<>>
  ELSE LET chunk == Head(chunks)
           matches == keyword_matches_of(chunk, keywords)
       IN (IF matches > 0
           THEN <<[id |-> chunk.id, chapter |-> chunk.chapter, text |-> chunk.text,
                   keyword_matches |-> matches,
                   score |-> 50 + (30 * matches) \div Len(keywords)]>>
           ELSE <<>>)
          \o keyword_found_in(Tail(chunks), keywords)

\* found.sort(key=keyword_matches, reverse=True): stable
RECURSIVE sort_by_matches(_)
sort_by_matches(s) ==
  IF s = <<>> THEN <<>>
  ELSE LET front == sort_by_matches(SubSeq(s, 1, Len(s) - 1))
           x == s[Len(s)]
           k == Cardinality({i \in 1..Len(front) :
                               front[i].keyword_matches >= x.keyword_matches})
       IN SubSeq(front, 1, k) \o <<x>> \o SubSeq(front, k + 1, Len(front))

\* VectorStore._keyword_search(query, n_results) over chunks_by_id = chunks
_keyword_search(chunks, q, n) ==
  LET keywords == _extract_keywords(q)
  IN IF keywords = <<>> THEN <<>>
     ELSE Take(sort_by_matches(keyword_found_in(chunks, keywords)), n)

\* one value of semantic_found / keyword_found, with the id it is kept under
found_entry(hit, source) ==
  [id |-> hit.id, chapter |-> hit.chapter, text |-> hit.text,
   score |-> hit.score, source |-> source]

\* semantic_found: the hits of collection.query whose score = 1 - distance
\* reaches MIN_RELEVANCE_SCORE
semantic_found_of(hits) ==
  LET kept == SelectSeq(hits, LAMBDA h : h.score >= MIN_RELEVANCE_SCORE)
  IN [i \in 1..Len(kept) |-> found_entry(kept[i], "semantic")]

\* keyword_found: the hits of _keyword_search (their ids are distinct)
keyword_found_of(keyword_results) ==
  [i \in 1..Len(keyword_results) |-> found_entry(keyword_results[i], "keyword")]

ids_of(found) == {found[i].id : i \in 1..Len(found)}

entry_of(found, chunk_id) == found[CHOOSE i \in 1..Len(found) : found[i].id = chunk_id]

\* mutant of merge_entry: the boosted score is not capped at 1.0
merge_entry_uncapped(chunk_id, semantic_found, keyword_found) ==
  IF chunk_id \in ids_of(semantic_found) /\ chunk_id \in ids_of(keyword_found)
  THEN [entry_of(semantic_found, chunk_id) EXCEPT
          !.score = @ + 20, !.source = "both"]
  ELSE IF chunk_id \in ids_of(semantic_found)
  THEN entry_of(semantic_found, chunk_id)
  ELSE entry_of(keyword_found, chunk_id)

\* the body of `for chunk_id in all_ids`: what is appended to combined
merge_entry(chunk_id, semantic_found, keyword_found) ==
  IF chunk_id \in ids_of(semantic_found) /\ chunk_id \in ids_of(keyword_found)
  THEN [entry_of(semantic_found, chunk_id) EXCEPT
          !.score = Min(100, @ + 20), !.source = "both"]
  ELSE IF chunk_id \in ids_of(semantic_found)
  THEN entry_of(semantic_found, chunk_id)
  ELSE entry_of(keyword_found, chunk_id)

\* the orders in which a Python set of these ids can be iterated
iteration_orders(ids) == {s \in [1..Cardinality(ids) -> ids] : Range(s) = ids}

\* what _keyword_search hands back is returned as it is on the failure path:
\* these dicts carry no 'source' key
raw_keyword_entry(hit) == found_entry(hit, "absent")

\* the documents of the collection, which are also chunks_by_id
StoreDocuments == <<
  [id |-> "x1", chapter |-> "A", text |-> <<"o","b","z","o","r">>],
  [id |-> "x2", chapter |-> "A", text |-> <<"p","l","a","n","y">>],
  [id |-> "x3", chapter |-> "B", text |-> <<"t","e","m","a">>] >>

SQ_three == <<"o","b","z","o","r"," ","p","l","a","n","y"," ","t","e","m","a">>
SQ_two == <<"k","n","i","g","a"," ","o","b","z","o","r"," ","t","e","m","a">>

StoreQueries == {SQ_three, SQ_two, Q_tema, Q_kak}

\* 1 - distance of a semantic hit, in hundredths
SemanticScores == {10, 70, 90}

\* what collection.query(query_texts=[query], n_results=k) can do: raise, or
\* hand back at most k documents, each once, nearest first
QueryOutcomes(documents, k) ==
  LET limit == IF k < Len(documents) THEN k ELSE Len(documents)
      HitsOf == {Hit(documents[i], s) : i \in 1..Len(documents), s \in SemanticScores}
  IN {[ok |-> FALSE, hits |-> <<>>]} \cup
     {[ok |-> TRUE, hits |-> hits] :
        hits \in {h \in UNION {[1..n -> HitsOf] : n \in 0..limit} :
                    /\ \A i, j \in 1..Len(h) : i < j => h[i].id # h[j].id
                    /\ \A i, j \in 1..Len(h) : i < j => h[i].score >= h[j].score}}

\* search_count = n_results * 2 if ENABLE_HYBRID_SEARCH else n_results
search_count(hybrid, n) == IF hybrid THEN n * 2 ELSE n

InitStore ==
  /\ collection \in {<<>>, StoreDocuments}
  /\ store_query \in StoreQueries
  /\ n_results \in 1..MaxResults
  /\ ENABLE_HYBRID_SEARCH \in BOOLEAN
  /\ semantic_results \in
       QueryOutcomes(collection, search_count(ENABLE_HYBRID_SEARCH, n_results))
  /\ combined = <<>>
  /\ v_pc = "call"
  /\ SearchIdle
  /\ HandlerIdle
  /\ ButtonIdle
  /\ TreeIdle
  /\ ChaptersIdle
  /\ RestIdle

\* VectorStore.search(query, n_results)
StoreSearch ==
  /\ v_pc = "call"
  /\ v_pc' = "returned"
  /\ IF collection = <<>>
     THEN combined' = <<>>
     ELSE IF ~semantic_results.ok
     THEN combined' =
            (IF ENABLE_HYBRID_SEARCH
             THEN LET found == _keyword_search(collection, store_query, n_results)
                  IN [i \in 1..Len(found) |-> raw_keyword_entry(found[i])]
             ELSE <<>>)
     ELSE LET semantic_found == semantic_found_of(semantic_results.hits)
          IN IF ~ENABLE_HYBRID_SEARCH
             THEN combined' = Take(sorted_by_score(semantic_found), n_results)
             ELSE LET keyword_results == _keyword_search(collection, store_query, n_results * 2)
                      keyword_found == keyword_found_of(keyword_results)
                      all_ids == ids_of(semantic_found) \cup ids_of(keyword_found)
                  IN \E order \in iteration_orders(all_ids) :
                       combined' =
                         Take(sorted_by_score(
                                [i \in 1..Len(order) |->
                                   merge_entry(order[i], semantic_found, keyword_found)]),
                              n_results)
  /\ UNCHANGED <<collection, store_query, n_results, ENABLE_HYBRID_SEARCH, semantic_results>>
  /\ UNCHANGED <<search_vars, handler_vars, button_vars, tree_vars, chapter_vars,
                 rest_vars>>

NextStore == StoreSearch

SpecStore == InitStore /\ [][NextStore]_vars

---------------------------------------------------------------------------
(* Properties of VectorStore.search *)

\* the call returned on the hybrid path: the collection has documents and
\* collection.query did not raise
HybridReturned ==
  /\ v_pc = "returned"
  /\ ENABLE_HYBRID_SEARCH
  /\ collection # <<>>
  /\ semantic_results.ok

\* score of the semantic hit on a chunk id, where it is one
SemanticHits ==
  {h \in Range(semantic_results.hits) : h.score >= MIN_RELEVANCE_SCORE}

\* the keyword hits of this call
KeywordHits == Range(_keyword_search(collection, store_query, n_results * 2))

UnionIds == {h.id : h \in SemanticHits} \cup {h.id : h \in KeywordHits}

SemanticScoreOf(chunk_id) == (CHOOSE h \in SemanticHits : h.id = chunk_id).score

KeywordScoreOf(chunk_id) == (CHOOSE h \in KeywordHits : h.id = chunk_id).score

\* score and tag an entry of the result has to carry
MergePolicy(e) ==
  IF e.id \in {h.id : h \in SemanticHits} /\ e.id \in {h.id : h \in KeywordHits}
  THEN e.score = Min(100, SemanticScoreOf(e.id) + 20) /\ e.source = "both"
  ELSE IF e.id \in {h.id : h \in SemanticHits}
  THEN e.score = SemanticScoreOf(e.id) /\ e.source = "semantic"
  ELSE e.score = KeywordScoreOf(e.id) /\ e.source = "keyword"

\* score an id of the union carries after the merge
MergedScoreOf(chunk_id) ==
  IF chunk_id \in {h.id : h \in SemanticHits} /\ chunk_id \in {h.id : h \in KeywordHits}
  THEN Min(100, SemanticScoreOf(chunk_id) + 20)
  ELSE IF chunk_id \in {h.id : h \in SemanticHits}
  THEN SemanticScoreOf(chunk_id)
  ELSE KeywordScoreOf(chunk_id)

\* C15, as stated: in hybrid mode the result is the union of the semantic
\* and the keyword hits, one entry per chunk id, each entry with the score
\* and tag of the merge policy
C15_HybridUnion ==
  HybridReturned =>
    /\ {combined[i].id : i \in 1..Len(combined)} = UnionIds
    /\ \A i, j \in 1..Len(combined) : i < j => combined[i].id # combined[j].id
    /\ \A i \in 1..Len(combined) : MergePolicy(combined[i])

\* C15, amended: the result is the n_results best-scored entries of that
\* union, highest score first, one entry per chunk id, each entry with the
\* score and tag of the merge policy
C15_HybridTopOfUnion ==
  HybridReturned =>
    /\ {combined[i].id : i \in 1..Len(combined)} \subseteq UnionIds
    /\ Len(combined) = Min(n_results, Cardinality(UnionIds))
    /\ \A i, j \in 1..Len(combined) : i < j => combined[i].id # combined[j].id
    /\ \A i, j \in 1..Len(combined) : i < j => combined[i].score >= combined[j].score
    /\ \A id \in UnionIds \ {combined[i].id : i \in 1..Len(combined)} :
         \A i \in 1..Len(combined) : combined[i].score >= MergedScoreOf(id)
    /\ \A i \in 1..Len(combined) : MergePolicy(combined[i])

\* a chunk found by the embedding path with 0.7 and by the keyword path with
\* 0.6 is returned with 0.9 and tagged both, while the union is larger than
\* n_results
C15_Witness ==
  /\ HybridReturned
  /\ Cardinality(UnionIds) > n_results
  /\ \E i \in 1..Len(combined) :
       /\ combined[i].source = "both"
       /\ combined[i].score = 90
       /\ SemanticScoreOf(combined[i].id) = 70
       /\ KeywordScoreOf(combined[i].id) = 60

---------------------------------------------------------------------------
(* Stop words and the score *)

\* the stop words among the tokens of the question
QuestionStopWords ==
  {w \in Range(findall_letters(lower(query))) : w \in stop_words}

\* what keyword kw adds to the score (half points) of a chunk in this search
KeywordShare2(kw, chunk) ==
  (IF kw \in priority_keywords THEN priority_score2(kw, chunk) ELSE 0)
  + (IF kw \in other_keywords THEN other_score2(kw, chunk) ELSE 0)

\* C27 as claimed: a stop word of the question adds nothing to the score of
\* any chunk, also when the adapter fails and the raw question is its only
\* search term, or when the local tokenizer is used
C27_StopWordsNeverScore ==
  s_pc = "returned" =>
    \A w \in QuestionStopWords : \A c \in Range(chunk_index) :
      KeywordShare2(w, c) = 0

---------------------------------------------------------------------------
(* The reference sum of the score *)

\* 1 if the condition holds, 0 otherwise
Indicator(b) == IF b THEN 1 ELSE 0

\* the unit weights of one keyword on a chunk, in half points: 5 for the
\* section title, 3 for the chapter title, 1 per occurrence in the text,
\* 0.5 for a keyword tag equal to it
RefWeight2(kw, chunk) ==
  10 * Indicator(Contains(kw, lower(chunk.section_title)))
  + 6 * Indicator(Contains(kw, lower(chunk.chapter_title)))
  + 2 * count(lower(chunk.text), kw)
  + Indicator(\E i \in 1..Len(chunk.keywords) : lower(chunk.keywords[i]) = kw)

\* the reference sum, in half points: priority keywords weigh three times
\* the unit weights, secondary keywords once
RefScore2(chunk) ==
  3 * SetSum(priority_keywords, [kw \in priority_keywords |-> RefWeight2(kw, chunk)])
  + SetSum(other_keywords, [kw \in other_keywords |-> RefWeight2(kw, chunk)])

\* C23: every scored chunk carries the reference sum, a chunk is scored
\* exactly when its reference sum is positive, and with both keyword sets
\* empty nothing is scored and the result is empty
C23_ReferenceSum ==
  s_pc = "returned" =>
    /\ \A i \in 1..Len(all_chunks) :
         all_chunks[i].score2 = RefScore2(IndexChunk(all_chunks[i].chunk_id))
    /\ \A c \in Range(chunk_index) :
         (RefScore2(c) > 0) <=> (\E i \in 1..Len(all_chunks) : all_chunks[i].chunk_id = c.id)
    /\ (priority_keywords = {} /\ other_keywords = {}
          => all_chunks = <<>> /\ result = <<>>)

\* C23 witness: a returned chunk whose score sums a priority keyword found in
\* the section title and a secondary keyword equal to one of its tags
C23_Witness ==
  /\ s_pc = "returned"
  /\ \E i \in 1..Len(result) :
       LET c == IndexChunk(result[i].chunk_id)
       IN /\ \E p \in priority_keywords : Contains(p, lower(c.section_title))
          /\ \E o \in other_keywords \ priority_keywords :
               /\ o \in {lower(t) : t \in Range(c.keywords)}
               /\ ~Contains(o, lower(c.text))
          /\ result[i].score2 = RefScore2(c)

\* C23 witness of the edge case: both keyword sets are empty over a
\* non-empty index
C23_EmptyKeywords ==
  /\ s_pc = "returned"
  /\ chunk_index # <<>>
  /\ priority_keywords = {}
  /\ other_keywords = {}
  /\ result = <<>>

---------------------------------------------------------------------------
(* The priority keyword set *)

\* the tokens of the question that are no stop words and have 3 letters or more
RefTokens ==
  {t \in Range(findall_letters(lower(query))) : t \notin stop_words /\ Len(t) >= 3}

\* the corrected form of every such token, and the token itself
RefBase == {lower(correct_typo(t)) : t \in RefTokens} \cup RefTokens

\* the forms of w with one suffix of the list taken off and 3 characters or
\* more left
RefStripped(w) ==
  {SubSeq(w, 1, Len(w) - Len(e)) :
     e \in {x \in Range(endings) : endswith(w, x) /\ Len(w) - Len(x) >= 3}}

\* the terms TreeSearcher._understand_query handed to the search
AdapterTerms == Range(_understand_query(query, llm, llm_reply).keywords)

\* C24: the priority keyword set is the corrected and original forms of the
\* question's tokens (no stop word, 3 letters or more) and their forms with
\* one suffix stripped that leave 3 characters or more; stripping never makes
\* a member shorter than 3; every secondary keyword is a word of an adapter
\* term that is not itself a priority keyword
C24_PriorityKeywordSet ==
  s_pc = "returned" =>
    /\ priority_keywords = RefBase \cup UNION {RefStripped(w) : w \in RefBase}
    /\ \A k \in priority_keywords \ RefBase : Len(k) >= 3
    /\ \A o \in other_keywords :
         \E term \in AdapterTerms :
           /\ lower(term) \notin priority_keywords
           /\ o \in Range(split(lower(term)))

\* C24 witness: a misspelt token gave both its corrected and its original
\* form, and an adapter term became secondary
C24_Witness ==
  /\ s_pc = "returned"
  /\ \E t \in RefTokens : correct_typo(t) # t /\ {t, correct_typo(t)} \subseteq priority_keywords
  /\ other_keywords # {}

\* the suffix rule strips: a token lost a listed suffix and 3 characters stay
C24_Stripped ==
  /\ s_pc = "returned"
  /\ \E w \in RefBase : RefStripped(w) # {} /\ RefStripped(w) \subseteq priority_keywords

\* the suffix rule stops: a token of 3 letters ends in a listed suffix and is
\* the only priority keyword
C24_TooShort ==
  /\ s_pc = "returned"
  /\ \E w \in RefBase :
       /\ \E x \in Range(endings) : endswith(w, x)
       /\ RefStripped(w) = {}
       /\ priority_keywords = {w}

---------------------------------------------------------------------------
(* The depth counter and the rounds of search_other *)

\* C25 as claimed: every search_other round that called the expansion oracle
\* raises the stored search_depth by one when it ends, whatever it found, so
\* that one question gets at most 2 oracle rounds before exhaustion
C25_EveryRoundAdvances ==
  [][(h_pc = "b_finish" /\ h_pc' = "idle")
       => /\ \E i \in 1..Len(calls) : calls[i] = "expand_query"
          /\ _search_context'[user_id].search_depth
               = _search_context[user_id].search_depth + 1]_vars

---------------------------------------------------------------------------
(* A failed load *)

\* what ContextTree.get_stats() hands back: <<>> is the empty dict of a
\* ContextTree without a tree
stats_reported == IF self_tree = <<>> THEN <<>> ELSE <<get_stats>>

\* C28 as claimed: load() returns True or False, and after a load that
\* returned False the chapter, section and chunk tables hold nothing and
\* get_stats reports no corpus
C28_FailedLoadClean ==
  /\ load_returned \in {None, "True", "False"}
  /\ load_returned = "False" =>
       /\ _chapter_index = <<>>
       /\ _section_index = <<>>
       /\ chunk_index = <<>>
       /\ stats_reported = <<>>

\* a first load of a malformed snapshot failed and left entries behind
C28_PartialEntries ==
  /\ loads = 1
  /\ load_returned = "False"
  /\ chunk_index # <<>>
  /\ stats_reported # <<>>

---------------------------------------------------------------------------
(* LLMClient._call_llm: one call, attempt by attempt *)

max_retries == 3
retry_delay == 2

\* what TreeSearcher, the handlers, the ContextTree, the chapter searcher and
\* the vector store hold while another component is explored
ComponentsIdle ==
  /\ SearchIdle
  /\ HandlerIdle
  /\ ButtonIdle
  /\ TreeIdle
  /\ ChaptersIdle
  /\ StoreIdle

components_vars == <<search_vars, handler_vars, button_vars, tree_vars,
                     chapter_vars, store_vars>>

\* one requests.post attempt: it raises (exception names the error), or hands
\* back a response with a status code; content is the text at
\* choices[0].message.content of a 200 body, "missing" when the body has no
\* such path (response.json() or the subscripts raise)
HttpOutcome(exception, status_code, content) ==
  [exception |-> exception, status_code |-> status_code, content |-> content]

HttpOutcomes ==
  { HttpOutcome("Timeout", 0, "None"),
    HttpOutcome("ConnectionError", 0, "None"),
    HttpOutcome("None", 200, "answer"),
    HttpOutcome("None", 200, "missing"),
    HttpOutcome("None", 429, "None"),
    HttpOutcome("None", 500, "None"),
    HttpOutcome("None", 401, "None") }

RECURSIVE Pow2(_)
Pow2(n) == IF n = 0 THEN 1 ELSE 2 * Pow2(n - 1)

\* mutant of wait_time: the delay does not grow
wait_time_flat(att) == retry_delay

\* wait_time = retry_delay * (2 ** attempt)
wait_time(att) == retry_delay * Pow2(att)

\* what the loop does next: "return" the value, "continue" with the next
\* attempt, "sleep" and then continue, or "raise"
LoopStep(next, value) == [next |-> next, value |-> value]

\* the except branch: the next attempt, or None after the last one
on_exception(att) ==
  IF att < max_retries - 1 THEN LoopStep("continue", "None")
  ELSE LoopStep("return", "None")

\* the body of the loop for attempt att when requests.post did r
attempt_step(att, r) ==
  IF r.exception # "None" THEN on_exception(att)
  ELSE IF r.status_code = 429
  THEN (IF att < max_retries - 1 THEN LoopStep("sleep", "None")
        ELSE LoopStep("return", "None"))
  ELSE IF r.status_code = 200
  THEN (IF r.content = "missing" THEN on_exception(att)
        ELSE LoopStep("return", r.content))
  ELSE LoopStep("return", "None")

InitLLM ==
  /\ attempt = 0
  /\ responses = <<>>
  /\ sleeps = <<>>
  /\ call_returned = "None"
  /\ l_pc = "request"
  /\ ComponentsIdle
  /\ VoyageIdle
  /\ TasksIdle

\* one pass of the loop body: requests.post (60 s timeout) and what follows it
Post ==
  /\ l_pc = "request"
  /\ \E r \in HttpOutcomes :
       LET step == attempt_step(attempt, r)
       IN /\ responses' = Append(responses, r)
          /\ CASE step.next = "return" ->
                    /\ l_pc' = "returned"
                    /\ call_returned' = step.value
                    /\ UNCHANGED <<attempt, sleeps>>
               [] step.next = "continue" ->
                    /\ attempt' = attempt + 1
                    /\ l_pc' = IF attempt + 1 < max_retries THEN "request" ELSE "returned"
                    /\ UNCHANGED <<call_returned, sleeps>>
               [] step.next = "sleep" ->
                    /\ sleeps' = Append(sleeps, [after |-> attempt, seconds |-> wait_time(attempt)])
                    /\ l_pc' = "sleeping"
                    /\ UNCHANGED <<attempt, call_returned>>
               [] OTHER ->
                    /\ l_pc' = "raised"
                    /\ UNCHANGED <<attempt, call_returned, sleeps>>
  /\ UNCHANGED <<components_vars, voyage_vars, task_vars>>

\* time.sleep(wait_time) is over: continue with the next attempt
Sleep ==
  /\ l_pc = "sleeping"
  /\ attempt' = attempt + 1
  /\ l_pc' = IF attempt + 1 < max_retries THEN "request" ELSE "returned"
  /\ UNCHANGED <<responses, sleeps, call_returned>>
  /\ UNCHANGED <<components_vars, voyage_vars, task_vars>>

NextLLM == Post \/ Sleep

SpecLLM == InitLLM /\ [][NextLLM]_vars

\* every attempt ends (requests.post carries a timeout, time.sleep a finite
\* delay), so the call goes on until it returns
SpecLLMFair == SpecLLM /\ WF_vars(NextLLM)

---------------------------------------------------------------------------
(* Properties of _call_llm *)

\* the attempt failed in a way the except branch handles
Excepted(r) == r.exception # "None" \/ (r.status_code = 200 /\ r.content = "missing")

\* the attempt handed back a 200 response that carries a reply text
ReplyText(r) == r.exception = "None" /\ r.status_code = 200 /\ r.content # "missing"

RateLimited(r) == r.exception = "None" /\ r.status_code = 429

C21_Safety ==
  /\ l_pc \in {"request", "sleeping", "returned"}
  /\ Len(responses) <= max_retries
  /\ attempt < max_retries
  /\ l_pc = "returned" =>
       call_returned = (IF ReplyText(responses[Len(responses)])
                        THEN responses[Len(responses)].content ELSE "None")
  /\ \A i \in 1..(Len(responses) - 1) : RateLimited(responses[i]) \/ Excepted(responses[i])
  /\ \A k \in 1..Len(sleeps) :
       /\ sleeps[k].after < max_retries - 1
       /\ RateLimited(responses[sleeps[k].after + 1])
       /\ sleeps[k].seconds = (IF sleeps[k].after = 0 THEN 2 ELSE 4)
  /\ \A i \in 1..Len(responses) :
       (RateLimited(responses[i]) /\ i < max_retries)
         => \E k \in 1..Len(sleeps) : sleeps[k].after = i - 1
  /\ Len(sleeps) <= Cardinality({i \in 1..Len(responses) : RateLimited(responses[i])})

\* C21: _call_llm makes at most 3 HTTP attempts, never raises and returns:
\* the reply text of a 200 response, None otherwise; an attempt is followed
\* by another one only after a 429 (after a sleep of 2 s, then 4 s) or after
\* an exception, and no sleep follows the last attempt
C21_CallTerminates == []C21_Safety /\ <>(l_pc = "returned")

\* C21 witness: two rate-limited attempts, slept 2 s and 4 s, then the reply
\* text of the third attempt is returned
C21_Witness ==
  /\ l_pc = "returned"
  /\ Len(responses) = max_retries
  /\ RateLimited(responses[1]) /\ RateLimited(responses[2])
  /\ sleeps = <<[after |-> 0, seconds |-> 2], [after |-> 1, seconds |-> 4]>>
  /\ call_returned = "answer"

\* three attempts that all fail make the call return None without a last sleep
C21_GivesUp ==
  /\ l_pc = "returned"
  /\ Len(responses) = max_retries
  /\ RateLimited(responses[max_retries])
  /\ Excepted(responses[1])
  /\ Len(sleeps) <= 1
  /\ call_returned = "None"

---------------------------------------------------------------------------
(* VoyageLimiter: can_make_request, record_usage, reset *)

FREE_TOKEN_LIMIT == 50000000
HARD_LIMIT == 45000000

MaxVoyageCalls == 4     \* VoyageLimiter method calls in the runs explored

\* FREE_TOKEN_LIMIT * WARNING_THRESHOLD with WARNING_THRESHOLD = 0.8
voyage_warn_at == (FREE_TOKEN_LIMIT * 8) \div 10

\* mutant of voyage_can_make_request: the limit itself is still allowed
voyage_can_make_request_strict(total, reached) ==
  [returns |-> ~(total > HARD_LIMIT),
   limit_reached |-> reached \/ total > HARD_LIMIT,
   notify |-> total > HARD_LIMIT /\ ~reached]

\* VoyageLimiter.can_make_request(): what it returns, limit_reached after
\* it, and whether it notifies
voyage_can_make_request(total, reached) ==
  [returns |-> ~(total >= HARD_LIMIT),
   limit_reached |-> reached \/ total >= HARD_LIMIT,
   notify |-> total >= HARD_LIMIT /\ ~reached]

\* one entry of the log: the method, what it returned and total_tokens after it
VoyageCall(method, returned, total) ==
  [method |-> method, returned |-> returned, total |-> total]

\* the token counts record_usage is called with
TokenAmounts == {0, 1, 5000000}

\* the usage file when the limiter is constructed: none, or what an earlier
\* run saved
SavedUsage ==
  {[total_tokens |-> t, warning_sent |-> t >= voyage_warn_at, limit_reached |-> r] :
     t \in {0, voyage_warn_at - 1, HARD_LIMIT - 1, HARD_LIMIT},
     r \in BOOLEAN}

InitVoyage ==
  /\ \E saved \in {u \in SavedUsage : u.limit_reached => u.total_tokens >= HARD_LIMIT} :
       /\ total_tokens = saved.total_tokens
       /\ voyage_warning_sent = saved.warning_sent
       /\ limit_reached = saved.limit_reached
  /\ voyage_log = <<>>
  /\ notified = <<>>
  /\ ComponentsIdle
  /\ LLMCallIdle
  /\ TasksIdle

\* limiter.can_make_request()
CanMakeRequest ==
  /\ Len(voyage_log) < MaxVoyageCalls
  /\ LET c == voyage_can_make_request(total_tokens, limit_reached)
     IN /\ limit_reached' = c.limit_reached
        /\ notified' = IF c.notify THEN Append(notified, "limit") ELSE notified
        /\ voyage_log' = Append(voyage_log,
             VoyageCall("can_make_request", IF c.returns THEN "True" ELSE "False",
                        total_tokens))
  /\ UNCHANGED <<total_tokens, voyage_warning_sent>>
  /\ UNCHANGED <<components_vars, llmcall_vars, task_vars>>

\* limiter.record_usage(tokens)
RecordUsage ==
  /\ Len(voyage_log) < MaxVoyageCalls
  /\ \E tokens \in TokenAmounts :
       LET total == total_tokens + tokens
           warn == ~voyage_warning_sent /\ total >= voyage_warn_at
       IN /\ total_tokens' = total
          /\ voyage_warning_sent' = (voyage_warning_sent \/ warn)
          /\ notified' = IF warn THEN Append(notified, "warning") ELSE notified
          /\ voyage_log' = Append(voyage_log, VoyageCall("record_usage", "None", total))
  /\ UNCHANGED limit_reached
  /\ UNCHANGED <<components_vars, llmcall_vars, task_vars>>

\* limiter.reset(admin_confirmed)
Reset ==
  /\ Len(voyage_log) < MaxVoyageCalls
  /\ \E admin_confirmed \in BOOLEAN :
       IF ~admin_confirmed
       THEN /\ voyage_log' = Append(voyage_log, VoyageCall("reset", "False", total_tokens))
            /\ UNCHANGED <<total_tokens, voyage_warning_sent, limit_reached, notified>>
       ELSE /\ total_tokens' = 0
            /\ voyage_warning_sent' = FALSE
            /\ limit_reached' = FALSE
            /\ notified' = <<>>
            /\ voyage_log' = Append(voyage_log, VoyageCall("reset", "True", 0))
  /\ UNCHANGED <<components_vars, llmcall_vars, task_vars>>

NextVoyage == CanMakeRequest \/ RecordUsage \/ Reset

SpecVoyage == InitVoyage /\ [][NextVoyage]_vars

---------------------------------------------------------------------------
(* Properties of the VoyageLimiter *)

ConfirmedReset(call) == call.method = "reset" /\ call.returned = "True"

\* the limit notifications since the last confirmed reset
LimitNotices == Cardinality({k \in 1..Len(notified) : notified[k] = "limit"})

C30_State ==
  /\ \A i, j \in 1..Len(voyage_log) :
       ( /\ i <= j
         /\ voyage_log[i].total >= HARD_LIMIT
         /\ \A k \in i..j : ~ConfirmedReset(voyage_log[k])
         /\ voyage_log[j].method = "can_make_request" )
       => voyage_log[j].returned = "False"
  /\ LimitNotices <= 1

C30_Step ==
  /\ (Len(voyage_log') > Len(voyage_log)
      /\ voyage_log'[Len(voyage_log')].method = "reset"
      /\ voyage_log'[Len(voyage_log')].returned = "False")
       => UNCHANGED <<total_tokens, voyage_warning_sent, limit_reached>>
  /\ (total_tokens >= HARD_LIMIT /\ total_tokens' < HARD_LIMIT)
       => ConfirmedReset(voyage_log'[Len(voyage_log')])
  /\ Len(notified') > Len(notified) /\ notified'[Len(notified')] = "limit"
       => ~limit_reached /\ limit_reached'

\* C30: once total_tokens has reached HARD_LIMIT every can_make_request call
\* returns False until a confirmed reset; an unconfirmed reset changes no
\* field; the limit notification goes out at most once between two confirmed
\* resets
C30_BlockedUntilReset == []C30_State /\ [][C30_Step]_vars

\* C30 witness: usage reached the limit exactly, two calls in a row were
\* refused, one notification went out, and an unconfirmed reset changed
\* nothing
C30_Witness ==
  /\ Len(voyage_log) = MaxVoyageCalls
  /\ voyage_log[1].method = "record_usage" /\ voyage_log[1].total = HARD_LIMIT
  /\ voyage_log[2].method = "can_make_request" /\ voyage_log[2].returned = "False"
  /\ voyage_log[3].method = "reset" /\ voyage_log[3].returned = "False"
  /\ voyage_log[4].method = "can_make_request" /\ voyage_log[4].returned = "False"
  /\ LimitNotices = 1
  /\ limit_reached
  /\ total_tokens = HARD_LIMIT

---------------------------------------------------------------------------
(* Updates in flight: handle_message and button_callback as coroutines *)

(***************************************************************************)
(* handlers.py holds no lock.  A handler runs from one await that suspends *)
(* it to the next; the vector store and the LLM client are called          *)
(* synchronously, so the only places where another update can run are the  *)
(* awaits on the Telegram API.  Between reading and writing the shared     *)
(* state these are `await context.bot.send_chat_action` of handle_message  *)
(* (line 127), of the chapter button (407) and of search_other (443).      *)
(* Each action below is the code of one handler between two such awaits;   *)
(* the retrieval pipeline between them is the oracle value it produces.    *)
(* A context dict is an object: _search_context maps a user to the address *)
(* of a dict in `heap`, and the local search_ctx of a callback keeps the   *)
(* address it read, also after the user's entry was replaced.              *)
(***************************************************************************)

MaxTasks == 2         \* updates in flight in the runs explored
MaxDays == 2          \* days the clock passes through in the runs explored

\* the question asked by update t; an earlier question is number 0
Question(t) == <<"q", t>>

\* chunk id found by a search made for question q
Retrieved(id, q) == [id |-> id, query |-> q]

RetrievedIds(chunks) == {chunks[i].id : i \in 1..Len(chunks)}

\* what the searches of one round hand over for question q
RoundResults(q) ==
  {<<>>, <<Retrieved(1, q)>>, <<Retrieved(2, q)>>, <<Retrieved(2, q), Retrieved(3, q)>>}

\* the dict handle_message stores: chapters are the chunk ids grouped at that time
context_dict(q, chunks, expanded_flag) ==
  [query |-> q, chunks |-> chunks, chapters |-> RetrievedIds(chunks),
   is_expanded |-> expanded_flag, search_depth |-> 1]

\* an update: the handler that runs it, its sender, where the coroutine
\* stands and its locals search_ctx (an address, 0 before the read),
\* search_depth and original_query
Task(kind, user) ==
  [kind |-> kind, user |-> user, pc |-> "new",
   search_ctx |-> 0, search_depth |-> 0, original_query |-> <<>>]

TaskKinds == {"message", "chapter", "search_other"}

\* RateLimiter._reset_if_new_day: the fields of the limiter after it
reset_if_new_day(rl_today, clock, requests, warned) ==
  IF clock # rl_today
  THEN [today |-> clock, requests_today |-> 0, warning_sent |-> FALSE]
  ELSE [today |-> rl_today, requests_today |-> requests, warning_sent |-> warned]

\* RateLimiter.record_request: the fields of the limiter after it
record_request(rl_today, clock, requests, warned) ==
  LET rl == reset_if_new_day(rl_today, clock, requests, warned)
  IN [rl EXCEPT !.requests_today = @ + 1]

\* mutant of extend_context: the update is written into every stored dict
extend_context_everyone(h, addr, fresh, depth) ==
  [a \in 1..Len(h) |-> [h[a] EXCEPT !.chunks = @ \o fresh, !.search_depth = depth]]

\* _search_context[user_id]['chunks'].extend(new_chunks) and
\* _search_context[user_id]['search_depth'] = search_depth + 1 on the dict at addr
extend_context(h, addr, fresh, depth) ==
  [h EXCEPT ![addr].chunks = @ \o fresh, ![addr].search_depth = depth]

\* the locals of handle_message and button_callback that the single-update
\* specifications follow
single_update_vars ==
  <<user_id, message_text, store_ready, h_pc, question, relevant_chunks,
    is_expanded, direct_chunks, has_good_score, has_keyword_match, expanded,
    chapter_i, term_j, chapter_chunks, found_chunks, calls, best_found, answer,
    sent_reply, button_vars>>

beside_task_vars == <<search_vars, single_update_vars, tree_vars, chapter_vars,
                      store_vars, llmcall_vars, voyage_vars>>

InitTasks ==
  /\ tasks \in [1..MaxTasks -> {Task(k, u) : k \in TaskKinds, u \in Users}]
  /\ \E first \in BOOLEAN :
       \* user u2 asked question 0 before; user u1 did, or did not
       /\ heap = [a \in 1..(IF first THEN 2 ELSE 1) |->
                    context_dict(Question(0), <<Retrieved(1, Question(0))>>, FALSE)]
       /\ _search_context =
            (IF first THEN context_put(context_put(EmptyContext, "u2", 1), "u1", 2)
             ELSE context_put(EmptyContext, "u2", 1))
       /\ rounds_done = [a \in 1..(IF first THEN 2 ELSE 1) |-> 0]
  /\ today = 1
  /\ date_today = 1
  /\ requests_today \in {0, DAILY_REQUEST_LIMIT - 1, DAILY_REQUEST_LIMIT}
  /\ warning_sent = (requests_today >= warn_threshold)
  /\ user_id = "u1"
  /\ message_text = <<>>
  /\ store_ready = TRUE
  /\ h_pc = "idle"
  /\ question = <<>>
  /\ relevant_chunks = <<>>
  /\ is_expanded = FALSE
  /\ direct_chunks = None
  /\ has_good_score = FALSE
  /\ has_keyword_match = FALSE
  /\ expanded = None
  /\ chapter_i = 1
  /\ term_j = 1
  /\ chapter_chunks = <<>>
  /\ found_chunks = <<>>
  /\ calls = <<>>
  /\ best_found = <<>>
  /\ answer = None
  /\ sent_reply = None
  /\ ButtonIdle
  /\ SearchIdle
  /\ TreeIdle
  /\ ChaptersIdle
  /\ StoreIdle
  /\ LLMCallIdle
  /\ VoyageIdle

\* handlers.py 105-130 for a non-empty question and a ready store: the
\* limit is checked, then the coroutine awaits send_chat_action
MessageStart(t) ==
  /\ tasks[t].kind = "message" /\ tasks[t].pc = "new"
  /\ LET rl == reset_if_new_day(today, date_today, requests_today, warning_sent)
     IN /\ today' = rl.today
        /\ requests_today' = rl.requests_today
        /\ warning_sent' = rl.warning_sent
        /\ tasks' = [tasks EXCEPT ![t].pc =
                       IF can_make_request(rl.requests_today) THEN "typing" ELSE "done"]
  /\ UNCHANGED <<heap, rounds_done, date_today, _search_context>>

\* handlers.py 133-279: the searches, generate_answer, record_request and the
\* new context dict of the sender (no admin warning is due in these runs)
MessageFinish(t) ==
  /\ tasks[t].kind = "message" /\ tasks[t].pc = "typing"
  /\ \E chunks \in RoundResults(Question(t)), expanded_flag \in BOOLEAN :
       /\ (expanded_flag => chunks # <<>>)
       /\ heap' = Append(heap, context_dict(Question(t), chunks, expanded_flag))
       /\ rounds_done' = Append(rounds_done, 0)
       /\ _search_context' = context_put(_search_context, tasks[t].user, Len(heap) + 1)
  /\ LET rl == record_request(today, date_today, requests_today, warning_sent)
     IN /\ today' = rl.today
        /\ requests_today' = rl.requests_today
        /\ warning_sent' = rl.warning_sent
  /\ tasks' = [tasks EXCEPT ![t].pc = "done"]
  /\ UNCHANGED date_today

\* handlers.py 376-446: the context of the sender is looked up, its query
\* and depth are copied into locals, then the coroutine awaits send_chat_action
ButtonStart(t) ==
  /\ tasks[t].kind \in {"chapter", "search_other"} /\ tasks[t].pc = "new"
  /\ IF tasks[t].user \notin DOMAIN _search_context
     THEN tasks' = [tasks EXCEPT ![t].pc = "done"]
     ELSE LET addr == _search_context[tasks[t].user]
              search_ctx == heap[addr]
          IN IF \/ tasks[t].kind = "chapter" /\ search_ctx.chapters = {}
                \/ tasks[t].kind = "search_other" /\ depth_exhausted(search_ctx.search_depth)
             THEN tasks' = [tasks EXCEPT ![t].pc = "done"]
             ELSE tasks' = [tasks EXCEPT ![t].pc = "typing",
                                         ![t].search_ctx = addr,
                                         ![t].search_depth = search_ctx.search_depth,
                                         ![t].original_query = search_ctx.query]
  /\ UNCHANGED <<heap, rounds_done, today, date_today, requests_today, warning_sent,
                 _search_context>>

\* handlers.py 412-428: more chunks of the chapter; an answer is recorded as
\* a request
ChapterFinish(t) ==
  /\ tasks[t].kind = "chapter" /\ tasks[t].pc = "typing"
  /\ \E more_chunks \in RoundResults(tasks[t].original_query) :
       LET rl == IF more_chunks # <<>>
                 THEN record_request(today, date_today, requests_today, warning_sent)
                 ELSE [today |-> today, requests_today |-> requests_today,
                       warning_sent |-> warning_sent]
       IN /\ today' = rl.today
          /\ requests_today' = rl.requests_today
          /\ warning_sent' = rl.warning_sent
  /\ tasks' = [tasks EXCEPT ![t].pc = "done"]
  /\ UNCHANGED <<heap, rounds_done, date_today, _search_context>>

\* handlers.py 449-488: the expansion and its searches; the chunks not in the
\* dict that was read are new; with new chunks the request is recorded and
\* the dict now stored for the sender gets them and the depth read plus one
SearchOtherFinish(t) ==
  /\ tasks[t].kind = "search_other" /\ tasks[t].pc = "typing"
  /\ \E all \in RoundResults(tasks[t].original_query) :
       LET shown_ids == RetrievedIds(heap[tasks[t].search_ctx].chunks)
           fresh == SelectSeq(all, LAMBDA c : c.id \notin shown_ids)
           rl == IF fresh # <<>>
                 THEN record_request(today, date_today, requests_today, warning_sent)
                 ELSE [today |-> today, requests_today |-> requests_today,
                       warning_sent |-> warning_sent]
       IN /\ today' = rl.today
          /\ requests_today' = rl.requests_today
          /\ warning_sent' = rl.warning_sent
          /\ IF fresh # <<>>
             THEN /\ heap' = extend_context(heap, _search_context[tasks[t].user], fresh,
                                            tasks[t].search_depth + 1)
                  /\ rounds_done' = [rounds_done EXCEPT ![tasks[t].search_ctx] = @ + 1]
             ELSE UNCHANGED <<heap, rounds_done>>
  /\ tasks' = [tasks EXCEPT ![t].pc = "done"]
  /\ UNCHANGED <<date_today, _search_context>>

\* the date changes
Midnight ==
  /\ date_today < MaxDays
  /\ date_today' = date_today + 1
  /\ UNCHANGED <<tasks, heap, rounds_done, today, requests_today, warning_sent,
                 _search_context>>

NextTasks ==
  \/ \E t \in DOMAIN tasks : (MessageStart(t) /\ UNCHANGED beside_task_vars)
  \/ \E t \in DOMAIN tasks : (MessageFinish(t) /\ UNCHANGED beside_task_vars)
  \/ \E t \in DOMAIN tasks : (ButtonStart(t) /\ UNCHANGED beside_task_vars)
  \/ \E t \in DOMAIN tasks : (ChapterFinish(t) /\ UNCHANGED beside_task_vars)
  \/ \E t \in DOMAIN tasks : (SearchOtherFinish(t) /\ UNCHANGED beside_task_vars)
  \/ (Midnight /\ UNCHANGED beside_task_vars)

SpecTasks == InitTasks /\ [][NextTasks]_vars

---------------------------------------------------------------------------
(* Properties of the updates in flight *)

\* the context stored for user u: <<>> if there is none, else the dict
ContextOf(u) ==
  IF u \in DOMAIN _search_context THEN <<heap[_search_context[u]]>> ELSE <<>>

\* C22: a step of a handler that runs an update of one user leaves the
\* stored context (query, chunks, chapters, is_expanded, search_depth) of
\* every other user as it was
C22_UserIsolation ==
  [][\A t \in DOMAIN tasks :
       tasks'[t] # tasks[t]
         => \A u \in Users \ {tasks[t].user} : ContextOf(u)' = ContextOf(u)]_vars

\* C22 witness: user u1 asked a new question and a search_other round of u1
\* extended its context, while the context of u2 is the one stored at the start
C22_Witness ==
  /\ \E t \in DOMAIN tasks :
       tasks[t].user = "u1" /\ tasks[t].kind = "search_other" /\ tasks[t].pc = "done"
  /\ \E t \in DOMAIN tasks :
       tasks[t].user = "u1" /\ tasks[t].kind = "message" /\ tasks[t].pc = "done"
  /\ ContextOf("u1") # <<>>
  /\ ContextOf("u1")[1].search_depth = 2
  /\ ContextOf("u1")[1].query # Question(0)
  /\ ContextOf("u2") = <<context_dict(Question(0), <<Retrieved(1, Question(0))>>, FALSE)>>

C26_MixedQuestions ==
  \E u \in DOMAIN _search_context :
    LET c == heap[_search_context[u]]
    IN /\ c.query # Question(0)
       /\ \E i \in 1..Len(c.chunks) : c.chunks[i].query = Question(0)
       /\ c.search_depth = 2
       /\ rounds_done[_search_context[u]] = 0

\* C29 as claimed: requests_today never exceeds DAILY_REQUEST_LIMIT, over
\* every sequence of questions and button callbacks, several in flight at
\* once included
C29_LimitNeverExceeded == requests_today <= DAILY_REQUEST_LIMIT

\* the counter restarts on the first limiter call of a new day: once the
\* limiter has seen the date, the count is that of this day's requests
C29_NewDayRestarts ==
  [][(today' # today) => /\ today' = date_today
                         /\ requests_today' \in {0, 1}]_vars

\* two questions passed the check at DAILY_REQUEST_LIMIT - 1 and both were recorded
C29_BothRecorded ==
  /\ \A t \in DOMAIN tasks : tasks[t].kind = "message" /\ tasks[t].pc = "done"
  /\ today = 1
  /\ requests_today = DAILY_REQUEST_LIMIT + 1

====
